---------------------------- MODULE Spec2Model ----------------------------
(***************************************************************************)
(* Citation-graph construction and hybrid graph-vector retrieval.          *)
(*                                                                         *)
(* Texts are sequences of one-character strings.  The Hangul syllables of  *)
(* the sources are written with ASCII stand-ins:                           *)
(*   "M" "S" "B" "H"  the four syllables of the header label (mun-seo-     *)
(*                    beon-ho, "document number"), all in [ga-hih]         *)
(*   "G"              any other Hangul syllable                            *)
(*   "1" "2"          digits        "-"  hyphen       " "  space           *)
(*   "\n"             newline       ":" "|" separators                     *)
(*   "x"              any other character (filler)                         *)
(***************************************************************************)
EXTENDS Integers, Sequences, FiniteSets, Bags, TLC

NoChar == "NoChar"

(* "No match" / Python None for a text result; a match is never empty. *)
NoMatch == <<>>

Min(a, b) == IF a < b THEN a ELSE b
Max(a, b) == IF a > b THEN a ELSE b

(***************************************************************************)
(* Character classes of the regular expressions.                           *)
(***************************************************************************)
Hangul == {"G", "M", "S", "B", "H"}
Digit == {"1", "2"}
Whitespace == {" ", "\n"}
Separator == {":", "|"}
LABEL == <<"M", "S", "B", "H">>

CharAt(s, i) == IF i >= 1 /\ i <= Len(s) THEN s[i] ELSE NoChar

(* Python slice s[a:b] with 0-based, already clamped offsets. *)
Slice(s, a, b) == IF b <= a THEN <<>> ELSE SubSeq(s, a + 1, b)

(* Greedy [ga-hih]+ from position i: index of the last character taken,    *)
(* i - 1 when none.                                                         *)
RECURSIVE HangulRunEnd(_, _)
HangulRunEnd(s, i) ==
    IF CharAt(s, i) \in Hangul THEN HangulRunEnd(s, i + 1) ELSE i - 1

(* Greedy \d+ from position i. *)
RECURSIVE DigitRunEnd(_, _)
DigitRunEnd(s, i) ==
    IF CharAt(s, i) \in Digit THEN DigitRunEnd(s, i + 1) ELSE i - 1

(* Greedy \s* from position i: first position after the run. *)
RECURSIVE SkipWhitespace(_, _)
SkipWhitespace(s, i) ==
    IF CharAt(s, i) \in Whitespace THEN SkipWhitespace(s, i + 1) ELSE i

(* Greedy (?:[ ][ga-hih]+)* after a word ending at j: end of the last word. *)
RECURSIVE SpacedWordsEnd(_, _)
SpacedWordsEnd(s, j) ==
    IF CharAt(s, j + 1) = " " /\ CharAt(s, j + 2) \in Hangul
    THEN SpacedWordsEnd(s, HangulRunEnd(s, j + 2))
    ELSE j

(***************************************************************************)
(* DOC_NUM_PATTERN = ([ga-hih]+(?:[ ][ga-hih]+)*-\d+) anchored at i: the    *)
(* index of the last matched character, 0 when the pattern does not match  *)
(* at i.  Every quantifier is greedy; giving a character back never helps  *)
(* (a shortened word is followed by a Hangul syllable, a dropped word by a *)
(* space, and nothing follows \d+), so the greedy scan is the match.       *)
(***************************************************************************)
DocNumEnd(s, i) ==
    LET w == HangulRunEnd(s, i)
        j == SpacedWordsEnd(s, w)
    IN  IF w >= i /\ CharAt(s, j + 1) = "-" /\ CharAt(s, j + 2) \in Digit
        THEN DigitRunEnd(s, j + 2)
        ELSE 0

(* DOC_NUM_PATTERN.search(s) from position i on: start of the leftmost     *)
(* match, 0 when there is none.                                            *)
RECURSIVE DocNumSearchFrom(_, _)
DocNumSearchFrom(s, i) ==
    IF i > Len(s) THEN 0
    ELSE IF DocNumEnd(s, i) # 0 THEN i
    ELSE DocNumSearchFrom(s, i + 1)

(* DOC_NUM_PATTERN.search(s).group(1), NoMatch without a match. *)
DocNumSearch(s) ==
    LET i == DocNumSearchFrom(s, 1)
    IN  IF i = 0 THEN NoMatch ELSE SubSeq(s, i, DocNumEnd(s, i))

(* DOC_NUM_PATTERN.findall(s): the non-overlapping matches, left to right. *)
RECURSIVE DocNumFindAllFrom(_, _)
DocNumFindAllFrom(s, i) ==
    LET k == DocNumSearchFrom(s, i)
    IN  IF k = 0 THEN <<>>
        ELSE <<SubSeq(s, k, DocNumEnd(s, k))>> \o
             DocNumFindAllFrom(s, DocNumEnd(s, k) + 1)

DocNumFindAll(s) == DocNumFindAllFrom(s, 1)

(* str.strip(): leading and trailing whitespace removed. *)
RECURSIVE LStrip(_)
LStrip(s) ==
    IF s # <<>> /\ Head(s) \in Whitespace THEN LStrip(Tail(s)) ELSE s

RECURSIVE RStrip(_)
RStrip(s) ==
    IF s # <<>> /\ s[Len(s)] \in Whitespace
    THEN RStrip(SubSeq(s, 1, Len(s) - 1))
    ELSE s

Strip(s) == RStrip(LStrip(s))

(* str.replace('\n', ' ') *)
ReplaceNewlines(s) == [k \in 1..Len(s) |-> IF s[k] = "\n" THEN " " ELSE s[k]]

(***************************************************************************)
(* The labelled pattern of extract_own_doc_number,                         *)
(*   LABEL \s* [:|]? \s* ([ga-hih]+(?:[ ][ga-hih]+)*-\d+)                  *)
(* anchored at i: start of group 1, 0 when it does not match at i.         *)
(***************************************************************************)
LabelAt(s, i) == SubSeq(s, i, Min(Len(s), i + Len(LABEL) - 1)) = LABEL

LabelledGroupStart(s, i) ==
    IF ~LabelAt(s, i) THEN 0
    ELSE LET a == SkipWhitespace(s, i + Len(LABEL))
             b == IF CharAt(s, a) \in Separator THEN a + 1 ELSE a
             c == SkipWhitespace(s, b)
         IN  IF DocNumEnd(s, c) # 0 THEN c ELSE 0

RECURSIVE LabelledSearchFrom(_, _)
LabelledSearchFrom(s, i) ==
    IF i > Len(s) THEN 0
    ELSE IF LabelledGroupStart(s, i) # 0 THEN LabelledGroupStart(s, i)
    ELSE LabelledSearchFrom(s, i + 1)

(* re.search(labelled pattern, s).group(1), NoMatch without a match. *)
LabelledSearch(s) ==
    LET c == LabelledSearchFrom(s, 1)
    IN  IF c = 0 THEN NoMatch ELSE SubSeq(s, c, DocNumEnd(s, c))

(***************************************************************************)
(* A content is a run of `pre` filler characters followed by `body`; the   *)
(* filler matches no part of either pattern, so a search of a window of    *)
(* the content is a search of the part of the body inside the window.      *)
(***************************************************************************)
OWN_LABEL_WINDOW == 1000
OWN_FALLBACK_WINDOW == 500

(* The body characters of content[:w]. *)
WindowBody(t, w) == SubSeq(t.body, 1, Min(Len(t.body), Max(0, w - t.pre)))

extract_own_doc_number_no_label(t) ==
    DocNumSearch(WindowBody(t, OWN_FALLBACK_WINDOW))

extract_own_doc_number(t) ==
    LET m == LabelledSearch(WindowBody(t, OWN_LABEL_WINDOW))
    IN  IF m # NoMatch THEN m
        ELSE DocNumSearch(WindowBody(t, OWN_FALLBACK_WINDOW))

(***************************************************************************)
(* Python dicts keep insertion order; assigning to an existing key keeps   *)
(* the key's position and replaces its value.                              *)
(***************************************************************************)
DictKeys(d) == {d[k].key : k \in 1..Len(d)}
DictGet(d, key) == (CHOOSE k \in 1..Len(d) : d[k].key = key)
DictValue(d, key) == d[DictGet(d, key)].val

(* doc_map.setdefault(key, val): the first value of a key is kept. *)
DictPutKeepFirst(d, key, val) ==
    IF key \in DictKeys(d) THEN d ELSE Append(d, [key |-> key, val |-> val])

DictPut(d, key, val) ==
    IF key \in DictKeys(d)
    THEN [d EXCEPT ![DictGet(d, key)].val = val]
    ELSE Append(d, [key |-> key, val |-> val])

Plain(c) == [pre |-> 0, body |-> c]

(***************************************************************************)
(* Context snippet of a match at positions s..e (1-based, inclusive):      *)
(* content[max(0, start-50) : min(len, end+50)].replace('\n',' ').strip() *)
(* wrapped in "...".                                                       *)
(***************************************************************************)
SNIPPET_MARGIN == 50
ELLIPSIS == <<".", ".", ".">>

Snippet(c, s, e) ==
    LET start == Max(0, (s - 1) - SNIPPET_MARGIN)
        end == Min(Len(c), e + SNIPPET_MARGIN)
    IN  ELLIPSIS \o Strip(ReplaceNewlines(Slice(c, start, end))) \o ELLIPSIS

(* re.search(re.escape(lit), c): start of the first literal occurrence,    *)
(* 0 when there is none.                                                   *)
OccursAt(c, lit, s) ==
    s >= 1 /\ s + Len(lit) - 1 <= Len(c) /\ SubSeq(c, s, s + Len(lit) - 1) = lit

Occurrences(c, lit) == {s \in 1..Len(c) : OccursAt(c, lit, s)}

LiteralSearch(c, lit) ==
    IF Occurrences(c, lit) = {} THEN 0
    ELSE CHOOSE s \in Occurrences(c, lit) : \A q \in Occurrences(c, lit) : s <= q

(* re.compile(re.escape(lit) + r'(?!\d|-)').search(c): start of the first   *)
(* occurrence not followed by a digit or a hyphen, 0 when there is none.   *)
Bounded(c, lit, s) == CharAt(c, s + Len(lit)) \notin Digit \cup {"-"}

LookaheadSearch(c, lit) ==
    LET ok == {s \in Occurrences(c, lit) : Bounded(c, lit, s)}
    IN  IF ok = {} THEN 0 ELSE CHOOSE s \in ok : \A q \in ok : s <= q

(***************************************************************************)
(* src/extract_relations.py (the findall-based resolver).                  *)
(***************************************************************************)
(* Phase 1: doc_map[own number] = index, over the files in glob order. *)
RECURSIVE RootDocMap(_, _, _)
RootDocMap(order, files, d) ==
    IF order = <<>> THEN d
    ELSE LET idx == Head(order)
             doc_num == extract_own_doc_number(Plain(files[idx]))
         IN  RootDocMap(Tail(order), files,
                        IF doc_num # NoMatch THEN DictPut(d, Strip(doc_num), idx) ELSE d)

(* set(DOC_NUM_PATTERN.findall(content)) *)
TokenSet(c) == {DocNumFindAll(c)[k] : k \in 1..Len(DocNumFindAll(c))}

(* The orders in which a Python set of strings may be iterated. *)
SetOrders(S) ==
    {f \in [1..Cardinality(S) -> S] : \A a, b \in 1..Cardinality(S) : f[a] = f[b] => a = b}

(* The row with its two index columns exchanged. *)
RootRowExchanged(src, c, cited, d) ==
    LET s == LiteralSearch(c, cited)
    IN  [source |-> DictValue(d, cited), target |-> src, num |-> cited,
         text |-> IF s = 0 THEN <<>> ELSE Snippet(c, s, s + Len(cited) - 1)]

RootRow(src, c, cited, d) ==
    LET s == LiteralSearch(c, cited)
    IN  [source |-> src, target |-> DictValue(d, cited), num |-> cited,
         text |-> IF s = 0 THEN <<>> ELSE Snippet(c, s, s + Len(cited) - 1)]

(* Phase 2 for one file; toks is the iteration over the set of matches. *)
RECURSIVE RootRowsOfFile(_, _, _, _)
RootRowsOfFile(src, c, toks, d) ==
    IF toks = <<>> THEN <<>>
    ELSE LET cited == Strip(Head(toks))
             rest == RootRowsOfFile(src, c, Tail(toks), d)
         IN  IF cited \in DictKeys(d) /\ src # DictValue(d, cited)
             THEN <<RootRow(src, c, cited, d)>> \o rest
             ELSE rest

RECURSIVE RootRows(_, _, _, _)
RootRows(order, files, toks, d) ==
    IF order = <<>> THEN <<>>
    ELSE RootRowsOfFile(Head(order), files[Head(order)], toks[Head(order)], d)
         \o RootRows(Tail(order), files, toks, d)

(***************************************************************************)
(* src/scripts/extract_relations.py (the lookahead-based resolver).        *)
(***************************************************************************)
clean_doc_num(text) ==
    IF text = <<>> THEN NoMatch
    ELSE IF DocNumSearch(text) # NoMatch THEN Strip(DocNumSearch(text))
    ELSE NoMatch

(* Step 1: doc_map[clean number] = Index, over the CSV rows in file order. *)
RECURSIVE ScriptsDocMap(_, _, _)
ScriptsDocMap(rows, csv, d) ==
    IF rows = <<>> THEN d
    ELSE LET idx == Head(rows)
             clean_num == clean_doc_num(csv[idx].Doc_Number)
         IN  ScriptsDocMap(Tail(rows), csv,
                           IF clean_num # NoMatch THEN DictPut(d, clean_num, idx) ELSE d)

(* Step 2 for one file and one item of doc_map, with the self-reference   *)
(* test left out.                                                          *)
ScriptsRowsOfItemNoSelfSkip(src, c, item) ==
    LET s == LookaheadSearch(c, item.key)
    IN  IF s # 0
        THEN <<[source |-> src, target |-> item.val, num |-> item.key,
                text |-> Snippet(c, s, s + Len(item.key) - 1)]>>
        ELSE <<>>

(* Step 2 for one file and one item of doc_map, with finditer in place of  *)
(* search: a row for every literal occurrence.                             *)
ScriptsRowsOfItemEveryOccurrence(src, c, item) ==
    IF src = item.val THEN <<>>
    ELSE LET occ == Occurrences(c, item.key)
             ord == CHOOSE f \in SetOrders(occ) : \A a, b \in DOMAIN f : a < b => f[a] < f[b]
         IN  [k \in 1..Cardinality(occ) |->
                 [source |-> src, target |-> item.val, num |-> item.key,
                  text |-> Snippet(c, ord[k], ord[k] + Len(item.key) - 1)]]

(* Step 2 for one file and one item of doc_map: a row when the item is not *)
(* the file's own and its number is found.                                 *)
ScriptsRowsOfItem(src, c, item) ==
    LET target_doc_num == item.key
        target_idx == item.val
        s == LookaheadSearch(c, target_doc_num)
    IN  IF src # target_idx /\ s # 0
        THEN <<[source |-> src, target |-> target_idx, num |-> target_doc_num,
                text |-> Snippet(c, s, s + Len(target_doc_num) - 1)]>>
        ELSE <<>>

RECURSIVE ScriptsRowsOfFile(_, _, _)
ScriptsRowsOfFile(src, c, items) ==
    IF items = <<>> THEN <<>>
    ELSE ScriptsRowsOfItem(src, c, Head(items)) \o ScriptsRowsOfFile(src, c, Tail(items))

RECURSIVE ScriptsRows(_, _, _)
ScriptsRows(order, files, d) ==
    IF order = <<>> THEN <<>>
    ELSE ScriptsRowsOfFile(Head(order), files[Head(order)], d)
         \o ScriptsRows(Tail(order), files, d)

(* open(OUTPUT_CSV, 'w') + writeheader + writerows: the file is replaced. *)
NoFile == [header |-> "absent", rows |-> <<>>]

WriteCsvAppending(old, header, rows) == [header |-> header, rows |-> old.rows \o rows]

WriteCsv(old, header, rows) == [header |-> header, rows |-> rows]

(***************************************************************************)
(* The graph store.  A node is [id, label, index, name, doc_id, title]     *)
(* (index is 0 and name/doc_id/title are empty where the label has no such *)
(* property); edges are a bag of [type, src, dst, score], so that a        *)
(* duplicated relationship is visible.  A fresh store numbers its nodes    *)
(* from 0 in creation order.                                               *)
(***************************************************************************)
NullId == -1
NullName == ""
NullText == <<>>

EmptyGraph == [nodes |-> {}, edges |-> EmptyBag, next_id |-> 0]

NodesOf(G, label) == {n \in G.nodes : n.label = label}

EdgeSet(G, type) == {e \in DOMAIN G.edges : e.type = type}

Edge(type, src, dst) == [type |-> type, src |-> src, dst |-> dst, score |-> 0]

(* MERGE (a)-[:TYPE]->(b): created only when no such relationship exists. *)
MergeEdge(G, type, src, dst) ==
    IF \E e \in EdgeSet(G, type) : e.src = src /\ e.dst = dst
    THEN G
    ELSE [G EXCEPT !.edges = @ (+) SetToBag({Edge(type, src, dst)})]

(* CREATE (n:Label {key}): a new node whether or not one matches. *)
CreateNode(G, label, index, name) ==
    [G EXCEPT !.nodes = @ \cup {[id |-> G.next_id, label |-> label, index |-> index,
                                  name |-> name, doc_id |-> NullText,
                                  title |-> NullText]},
               !.next_id = @ + 1]

(* MERGE (n:Label {key}): the matching node, created when there is none. *)
MergeNode(G, label, index, name) ==
    IF \E n \in NodesOf(G, label) : n.index = index /\ n.name = name
    THEN G
    ELSE [G EXCEPT !.nodes = @ \cup {[id |-> G.next_id, label |-> label, index |-> index,
                                      name |-> name, doc_id |-> NullText,
                                      title |-> NullText]},
                   !.next_id = @ + 1]

NodeId(G, label, index, name) ==
    (CHOOSE n \in NodesOf(G, label) : n.index = index /\ n.name = name).id

SetDocProps(G, index, doc_id, title) ==
    [G EXCEPT !.nodes = {IF n.label = "Document" /\ n.index = index
                         THEN [n EXCEPT !.doc_id = doc_id, !.title = title]
                         ELSE n : n \in @}]

(***************************************************************************)
(* src/graph_db/301_build_real_graph.py                                    *)
(***************************************************************************)
UnknownDocId(index) == <<"UNKNOWN-", ToString(index)>>

(* cleaned_row: NaN cells (empty here) replaced by their defaults. *)
CleanedRow(index, row) ==
    [index |-> index,
     title |-> Strip(row.Document_Name),
     doc_id |-> IF row.Doc_Number # <<>> THEN Strip(row.Doc_Number)
                ELSE UnknownDocId(index),
     author |-> IF row.Author # "" THEN row.Author ELSE "Unknown",
     department |-> IF row.Department # "" THEN row.Department ELSE "Unknown"]

(* One row of query_create_nodes. *)
CreateNodesRow(G, r) ==
    LET g1 == SetDocProps(MergeNode(G, "Document", r.index, NullName),
                          r.index, r.doc_id, r.title)
        g2 == MergeNode(g1, "Person", 0, r.author)
        g3 == MergeNode(g2, "Department", 0, r.department)
        d == NodeId(g3, "Document", r.index, NullName)
        pn == NodeId(g3, "Person", 0, r.author)
        dep == NodeId(g3, "Department", 0, r.department)
    IN  MergeEdge(MergeEdge(g3, "AUTHORED", pn, d), "BELONGS_TO", pn, dep)

(* CONSTRAINT ... REQUIRE d.doc_id IS UNIQUE *)
DocIdUnique(G) ==
    \A a, b \in NodesOf(G, "Document") : a.doc_id = b.doc_id => a.id = b.id

(* query_create_nodes over all rows, in one transaction: a constraint      *)
(* violation fails the query and nothing of it is kept.  A row of df_docs  *)
(* is [Index, row]; the same Index may stand in several rows.              *)
RECURSIVE CreateNodesOfRows(_, _)
CreateNodesOfRows(G, rows) ==
    IF rows = <<>> THEN [ok |-> TRUE, g |-> G]
    ELSE LET g1 == CreateNodesRow(G, CleanedRow(Head(rows).Index, Head(rows).row))
         IN  IF DocIdUnique(g1) THEN CreateNodesOfRows(g1, Tail(rows))
             ELSE [ok |-> FALSE, g |-> EmptyGraph]

(* df_docs when the CSV holds one row per Index. *)
DocRecords(order, csv) == [k \in DOMAIN order |-> [Index |-> order[k], row |-> csv[order[k]]]]


(* One row of query_citations: MATCH source, MATCH target, MERGE CITES. *)
CiteRow(G, r) ==
    LET src == {n \in NodesOf(G, "Document") : n.index = r.source}
        dst == {n \in NodesOf(G, "Document") : n.index = r.target}
    IN  IF src = {} \/ dst = {} THEN G
        ELSE MergeEdge(G, "CITES", (CHOOSE n \in src : TRUE).id,
                       (CHOOSE n \in dst : TRUE).id)

RECURSIVE CreateCitations(_, _)
CreateCitations(G, rows) ==
    IF rows = <<>> THEN G ELSE CreateCitations(CiteRow(G, Head(rows)), Tail(rows))

(* build_graph: how the run ends, and the store it leaves.  The relations  *)
(* file is read by column name: Source_Index and Target_Index exist only   *)
(* under the header written by scripts/extract_relations.py.               *)
build_graph_of(G, df_docs, relations) ==
    IF relations.header = "absent"
    THEN [status |-> "load_error", g |-> G]
    ELSE LET made == CreateNodesOfRows(EmptyGraph, df_docs)
         IN  IF ~made.ok THEN [status |-> "constraint_error", g |-> EmptyGraph]
             ELSE IF relations.header # "scripts" /\ relations.rows # <<>>
             THEN [status |-> "key_error", g |-> made.g]
             ELSE [status |-> "ok", g |-> CreateCitations(made.g, relations.rows)]

build_graph(G, order, csv, relations) == build_graph_of(G, DocRecords(order, csv), relations)

(***************************************************************************)
(* src/graph_db/api_server_real.py: get_document_context.                  *)
(***************************************************************************)
NullCitation == [title |-> NullText, doc_id |-> NullText, neo4j_id |-> NullId]

NodeById(G, id) == CHOOSE n \in G.nodes : n.id = id

(* <<person, department>> of OPTIONAL MATCH (d)<-[:AUTHORED]-(p)-[:BELONGS_TO]->(dep) *)
AuthorPaths(G, d) ==
    LET authored == {e \in EdgeSet(G, "AUTHORED") : e.dst = d.id}
        belongs == EdgeSet(G, "BELONGS_TO")
    IN  {<<NodeById(G, ab[1].src), NodeById(G, ab[2].dst)>> :
            ab \in {x \in authored \X belongs : x[2].src = x[1].src}}

CitedBy(G, d) ==
    {NodeById(G, e.dst) : e \in {x \in EdgeSet(G, "CITES") : x.src = d.id}}

(* collect(DISTINCT {title, doc_id, neo4j_id}); a missing optional match   *)
(* still yields one map, of nulls.                                         *)
Citations(G, d) ==
    IF CitedBy(G, d) = {} THEN {NullCitation}
    ELSE {[title |-> c.title, doc_id |-> c.doc_id, neo4j_id |-> c.id] : c \in CitedBy(G, d)}

(* The rows of the query: one per (document, author, department) group. *)
DocumentRows(G, id) ==
    LET D == {d \in NodesOf(G, "Document") : d.doc_id = id}
    IN  {[doc_node_id |-> d.id, author |-> NullName, author_node_id |-> NullId,
          dept |-> NullName, dept_node_id |-> NullId, citations |-> Citations(G, d)] :
            d \in {x \in D : AuthorPaths(G, x) = {}}}
        \cup
        UNION {{[doc_node_id |-> d.id, author |-> pd[1].name, author_node_id |-> pd[1].id,
                 dept |-> pd[2].name, dept_node_id |-> pd[2].id,
                 citations |-> Citations(G, d)] : pd \in AuthorPaths(G, d)} : d \in D}

(* metadata = {}: every .get() of it is None, .get("citations", []) is []. *)
EmptyMetadata ==
    [author |-> NullName, author_node_id |-> NullId, department |-> NullName,
     department_node_id |-> NullId, citations |-> {}]

EmptyDocumentContext ==
    [context_text |-> <<>>, neo4j_id |-> NullId, metadata |-> EmptyMetadata]

(* The part of get_document_context after the query; row is result[0].     *)
(* context_text is the list of lines after "  [Metadata]", empty when      *)
(* there is none.                                                          *)
DocumentContextOf(row) ==
    LET titled == {c \in row.citations : c.title # NullText}
    IN  [context_text |->
            (IF row.author # NullName
             THEN <<[line |-> "Author", author |-> row.author, dept |-> row.dept]>>
             ELSE <<>>)
            \o (IF titled # {}
                THEN <<[line |-> "Citations", author |-> NullName, dept |-> NullName]>>
                ELSE <<>>),
         neo4j_id |-> row.doc_node_id,
         metadata |-> [author |-> row.author, author_node_id |-> row.author_node_id,
                       department |-> row.dept, department_node_id |-> row.dept_node_id,
                       citations |-> row.citations]]

(***************************************************************************)
(* src/graph_db/302_add_complaints_node.py.  Similarity scores are in      *)
(* hundredths.                                                             *)
(***************************************************************************)
LINK_TOP_K == 5
LINK_THRESHOLD == 50

(* MERGE (c)-[r:RELATED_TO]->(sim_doc) SET r.score = score *)
MergeRelated(G, c, d, score) ==
    LET old == {e \in EdgeSet(G, "RELATED_TO") : e.src = c /\ e.dst = d}
        kept == [e \in DOMAIN G.edges \ old |-> G.edges[e]]
    IN  [G EXCEPT !.edges = kept (+) SetToBag({[type |-> "RELATED_TO", src |-> c,
                                               dst |-> d, score |-> score]})]

(* MERGE (c:Complaint {index}) SET c.title *)
MergeComplaint(G, index) ==
    LET g1 == MergeNode(G, "Complaint", index, NullName)
    IN  [g1 EXCEPT !.nodes = {IF n.label = "Complaint" /\ n.index = index
                              THEN [n EXCEPT !.title = <<"C", ToString(index)>>]
                              ELSE n : n \in @}]

(* queryNodes('document_embedding_index', 5, c.embedding): the documents   *)
(* nearest to complaint c, at most LINK_TOP_K of them.                     *)
NearestDocuments(G, c, score) ==
    LET docs == NodesOf(G, "Document")
    IN  IF Cardinality(docs) <= LINK_TOP_K THEN docs
        ELSE CHOOSE S \in SUBSET docs :
                /\ Cardinality(S) = LINK_TOP_K
                /\ \A a \in S, b \in docs \ S : score[c.index][a.index] >= score[c.index][b.index]

RECURSIVE LinkAll(_, _, _)
LinkAll(G, links, score) ==
    IF links = {} THEN G
    ELSE LET l == CHOOSE x \in links : TRUE
         IN  LinkAll(MergeRelated(G, l[1].id, l[2].id, score[l[1].index][l[2].index]),
                     links \ {l}, score)

RECURSIVE InsertComplaints(_, _)
InsertComplaints(G, rows) ==
    IF rows = <<>> THEN G ELSE InsertComplaints(MergeComplaint(G, Head(rows)), Tail(rows))

(* add_complaints with query_link lacking its WHERE score > 0.5. *)
add_complaints_unfiltered(G, rows, score) ==
    LET g1 == InsertComplaints(G, rows)
        links == {cd \in NodesOf(g1, "Complaint") \X NodesOf(g1, "Document") :
                     cd[2] \in NearestDocuments(g1, cd[1], score)}
    IN  LinkAll(g1, links, score)

add_complaints(G, rows, score) ==
    LET g1 == InsertComplaints(G, rows)
        links == {cd \in NodesOf(g1, "Complaint") \X NodesOf(g1, "Document") :
                     /\ cd[2] \in NearestDocuments(g1, cd[1], score)
                     /\ score[cd[1].index][cd[2].index] > LINK_THRESHOLD}
    IN  LinkAll(g1, links, score)

(***************************************************************************)
(* src/graph_db/api_server_real.py: get_complaint_context.                 *)
(***************************************************************************)
RELATED_LIMIT == 5

Prefix(s, n) == SubSeq(s, 1, Min(n, Len(s)))

(* The rows of the query before ORDER BY: one per (complaint, related      *)
(* document, author), with nulls where an optional match finds nothing.    *)
ComplaintRows(G, id) ==
    UNION {LET related == {e \in EdgeSet(G, "RELATED_TO") : e.src = c.id}
           IN  IF related = {}
               THEN {[complaint_node_id |-> c.id, doc_title |-> NullText,
                      doc_id |-> NullText, doc_node_id |-> NullId,
                      author_name |-> NullName, author_node_id |-> NullId,
                      sim_score |-> NullId]}
               ELSE UNION {LET d == NodeById(G, e.dst)
                               authors == {a \in EdgeSet(G, "AUTHORED") : a.dst = d.id}
                           IN  IF authors = {}
                               THEN {[complaint_node_id |-> c.id, doc_title |-> d.title,
                                      doc_id |-> d.doc_id, doc_node_id |-> d.id,
                                      author_name |-> NullName,
                                      author_node_id |-> NullId, sim_score |-> e.score]}
                               ELSE {[complaint_node_id |-> c.id, doc_title |-> d.title,
                                      doc_id |-> d.doc_id, doc_node_id |-> d.id,
                                      author_name |-> NodeById(G, a.src).name,
                                      author_node_id |-> a.src, sim_score |-> e.score] :
                                        a \in authors} : e \in related} :
           c \in {n \in NodesOf(G, "Complaint") : n.index = id}}

(* ORDER BY sim_score DESC LIMIT 5: every order of the rows that descends  *)
(* in score, cut to its first RELATED_LIMIT rows.                          *)
RECURSIVE DescendingOrders(_)
DescendingOrders(rows) ==
    IF rows = {} THEN {<<>>}
    ELSE UNION {{<<r>> \o t : t \in DescendingOrders(rows \ {r})} :
                   r \in {x \in rows : \A y \in rows : x.sim_score >= y.sim_score}}

ComplaintResults(G, id) ==
    {Prefix(f, RELATED_LIMIT) : f \in DescendingOrders(ComplaintRows(G, id))}

EmptyComplaintContext ==
    [context_text |-> <<>>, neo4j_id |-> NullId, related_documents |-> <<>>]

RelatedDocument(row) ==
    [doc_id |-> row.doc_id, title |-> row.doc_title, neo4j_id |-> row.doc_node_id,
     author |-> row.author_name, author_node_id |-> row.author_node_id,
     similarity |-> row.sim_score]

(* The part of get_complaint_context after the query.  context_text is the *)
(* list of lines after the heading, empty when there is none.              *)
ComplaintContextOf(result) ==
    LET titled == SelectSeq(result, LAMBDA row : row.doc_title # NullText)
    IN  [context_text |-> [k \in 1..Len(titled) |->
                              [title |-> titled[k].doc_title, doc_id |-> titled[k].doc_id,
                               author |-> titled[k].author_name]],
         neo4j_id |-> IF result = <<>> THEN NullId ELSE result[1].complaint_node_id,
         related_documents |-> [k \in 1..Len(titled) |-> RelatedDocument(titled[k])]]

(***************************************************************************)
(* src/graph_db/202_neo4j_hybrid_rag.py: get_expanded_context.  A fragment *)
(* is the list of lines after its heading; the empty string is no lines.   *)
(***************************************************************************)
(* The rows of the query: one per (title, author name, author role), with  *)
(* nulls where the document has no author.  No Person of the store has a   *)
(* role, and no document a MENTIONS relationship.                          *)
ExpandedRows(G, title) ==
    UNION {LET authors == {e \in EdgeSet(G, "AUTHORED") : e.dst = d.id}
           IN  IF authors = {}
               THEN {[title |-> d.title, author_name |-> NullName,
                      author_role |-> NullName, mentions |-> <<>>]}
               ELSE {[title |-> d.title, author_name |-> NodeById(G, a.src).name,
                      author_role |-> NullName, mentions |-> <<>>] : a \in authors} :
           d \in {n \in NodesOf(G, "Document") : n.title = title}}

(* The part of get_expanded_context after the query; record is result[0]. *)
ExpandedContextOf(record) ==
    <<[line |-> "Author", author |-> record.author_name, role |-> record.author_role]>>
    \o (IF record.mentions # <<>>
        THEN <<[line |-> "Mentions", author |-> NullName, role |-> NullName]>>
        ELSE <<>>)

get_expanded_context(G, doc_title) ==
    IF ExpandedRows(G, doc_title) = {} THEN {<<>>}
    ELSE {ExpandedContextOf(record) : record \in ExpandedRows(G, doc_title)}

(***************************************************************************)
(* src/graph_db/api_server_real.py: search.  e holds what the              *)
(* collaborators do during the request: e.hyde, e.llm and e.ab are "ok" or *)
(* "fail", e.vector is "ok", "fail_complaint" or "fail_doc", e.c_hits and  *)
(* e.d_hits give the hits of each index for a query, and e.graph_fail_at   *)
(* is the number of the graph query that raises (0: none does).            *)
(***************************************************************************)
TOP_K == 2
SNIPPET_CHARS == 300
STD_SNIPPET_CHARS == 500
STD_TITLE_CHARS == 150

NoText == <<>>

(* Python truthiness of a node id or None. *)
Truthy(id) == id # NullId /\ id # 0

(* What hyde_chain.invoke returns for a question. *)
generate_hypothetical_document(question) == <<"hyde">> \o question

(* What the answer chain returns, named by what it was asked. *)
Answer(context, question) == [context |-> context, question |-> question]

(* search_query and hypothetical_doc after the HyDE block, had the         *)
(* exception of generate_hypothetical_document not been caught.            *)
HydeStepUncaught(request, e) ==
    IF request.use_hyde /\ e.hyde = "ok"
    THEN [raised |-> FALSE, search_query |-> generate_hypothetical_document(request.query),
          hypothetical_doc |-> generate_hypothetical_document(request.query)]
    ELSE [raised |-> request.use_hyde, search_query |-> request.query,
          hypothetical_doc |-> NoText]

(* search_query and hypothetical_doc after the HyDE block. *)
HydeStep(request, e) ==
    IF request.use_hyde /\ e.hyde = "ok"
    THEN [raised |-> FALSE, search_query |-> generate_hypothetical_document(request.query),
          hypothetical_doc |-> generate_hypothetical_document(request.query)]
    ELSE [raised |-> FALSE, search_query |-> request.query, hypothetical_doc |-> NoText]

ComplaintContexts(app, G, idx) ==
    IF ~app.graph THEN {EmptyComplaintContext}
    ELSE {ComplaintContextOf(r) : r \in ComplaintResults(G, idx)}

DocumentContexts(app, G, doc_id) ==
    IF ~app.graph \/ DocumentRows(G, doc_id) = {} THEN {EmptyDocumentContext}
    ELSE {DocumentContextOf(row) : row \in DocumentRows(G, doc_id)}

(* The accumulators, had the context started with a heading and the       *)
(* highlighted nodes with the first node of the store.                     *)
NewAccWithHeading ==
    [combined_context |-> <<[kind |-> "Heading", title |-> <<>>, snippet |-> <<>>,
                             context_text |-> <<>>]>>,
     sources |-> <<>>, complaints |-> <<>>, documents |-> <<>>, highlighted_nodes |-> {0}]

NewAcc ==
    [combined_context |-> <<>>, sources |-> <<>>, complaints |-> <<>>, documents |-> <<>>,
     highlighted_nodes |-> {}]

(* One turn of the loop over c_docs that puts its fragment and its source  *)
(* before those of the earlier hits.                                       *)
AddComplaintFirst(acc, doc, context_data) ==
    LET complaint_snippet == Prefix(doc.page_content, SNIPPET_CHARS)
    IN  [acc EXCEPT
            !.complaints = Append(@, [id |-> doc.index, neo4j_id |-> context_data.neo4j_id,
                                      snippet |-> complaint_snippet,
                                      related_documents |-> context_data.related_documents]),
            !.combined_context = <<[kind |-> "Complaint", title |-> NoText,
                                    snippet |-> complaint_snippet,
                                    context_text |-> context_data.context_text]>> \o @,
            !.sources = <<[type |-> "Complaint", title |-> complaint_snippet,
                           id |-> <<ToString(doc.index)>>]>> \o @]

(* One turn of the loop over c_docs. *)
AddComplaint(acc, doc, context_data) ==
    LET complaint_snippet == Prefix(doc.page_content, SNIPPET_CHARS)
        related == context_data.related_documents
        ids == {context_data.neo4j_id}
               \cup {related[k].neo4j_id : k \in DOMAIN related}
               \cup {related[k].author_node_id : k \in DOMAIN related}
    IN  [acc EXCEPT
            !.highlighted_nodes = @ \cup {i \in ids : Truthy(i)},
            !.complaints = Append(@, [id |-> doc.index, neo4j_id |-> context_data.neo4j_id,
                                      snippet |-> complaint_snippet,
                                      related_documents |-> related]),
            !.combined_context = Append(@, [kind |-> "Complaint", title |-> NoText,
                                            snippet |-> complaint_snippet,
                                            context_text |-> context_data.context_text]),
            !.sources = Append(@, [type |-> "Complaint", title |-> complaint_snippet,
                                   id |-> <<ToString(doc.index)>>])]

(* One turn of the loop over d_docs. *)
AddDocument(acc, doc, context_data) ==
    LET doc_snippet == Prefix(doc.page_content, SNIPPET_CHARS)
        meta == context_data.metadata
        ids == {context_data.neo4j_id, meta.author_node_id, meta.department_node_id}
               \cup {c.neo4j_id : c \in meta.citations}
    IN  [acc EXCEPT
            !.highlighted_nodes = @ \cup {i \in ids : Truthy(i)},
            !.documents = Append(@, [id |-> doc.doc_id, neo4j_id |-> context_data.neo4j_id,
                                     title |-> doc.title, snippet |-> doc_snippet,
                                     metadata |-> meta]),
            !.combined_context = Append(@, [kind |-> "Document", title |-> doc.title,
                                            snippet |-> doc_snippet,
                                            context_text |-> context_data.context_text]),
            !.sources = Append(@, [type |-> "Document", title |-> doc.title,
                                   id |-> doc.doc_id])]

(* The two loops over the hits, complaints first; n numbers the graph      *)
(* queries.  A query that raises ends the loops: nothing catches it.       *)
(* queries counts the state.graph.query calls made.                        *)
RECURSIVE ProcessHits(_, _, _, _, _, _)
ProcessHits(app, G, hits, n, fail_at, acc) ==
    IF hits = <<>>
    THEN {[raised |-> FALSE, acc |-> acc, queries |-> IF app.graph THEN n - 1 ELSE 0]}
    ELSE IF app.graph /\ n = fail_at THEN {[raised |-> TRUE, acc |-> acc, queries |-> n]}
    ELSE LET doc == Head(hits)
             turns == IF doc.kind = "Complaint"
                      THEN {AddComplaint(acc, doc, cd) :
                               cd \in ComplaintContexts(app, G, doc.index)}
                      ELSE {AddDocument(acc, doc, cd) :
                               cd \in DocumentContexts(app, G, doc.doc_id)}
         IN  UNION {ProcessHits(app, G, Tail(hits), n + 1, fail_at, a) : a \in turns}

ServiceUnavailable == [status |-> 503, detail |-> "initializing"]
VectorSearchFailed == [status |-> 500, detail |-> "Vector search failed"]
InternalServerError == [status |-> 500, detail |-> "Internal Server Error"]

NoStandard == [answer |-> NoText, sources |-> <<>>, complaints |-> <<>>, documents |-> <<>>]

VectorCalls(query, upto) ==
    SubSeq(<<[index |-> "complaint", query |-> query],
             [index |-> "document", query |-> query]>>, 1, upto)

(* The A/B block: the standard search run for comparison. *)
StandardSearch(request, e) ==
    LET c_docs_std == e.c_hits[request.query]
        d_docs_std == e.d_hits[request.query]
        cs == [k \in DOMAIN c_docs_std |->
                 [kind |-> "Complaint", title |-> NoText,
                  id |-> <<ToString(c_docs_std[k].index)>>,
                  snippet |-> Prefix(c_docs_std[k].page_content, STD_SNIPPET_CHARS),
                  source |-> Prefix(c_docs_std[k].page_content, STD_TITLE_CHARS)]]
        ds == [k \in DOMAIN d_docs_std |->
                 [kind |-> "Document", title |-> d_docs_std[k].title,
                  id |-> d_docs_std[k].doc_id,
                  snippet |-> Prefix(d_docs_std[k].page_content, STD_SNIPPET_CHARS),
                  source |-> IF d_docs_std[k].title # NoText THEN d_docs_std[k].title
                             ELSE Prefix(d_docs_std[k].page_content, STD_TITLE_CHARS)]]
    IN  [answer |-> Answer([k \in DOMAIN (cs \o ds) |->
                               [kind |-> (cs \o ds)[k].kind, title |-> (cs \o ds)[k].title,
                                snippet |-> (cs \o ds)[k].snippet]], request.query),
         sources |-> [k \in DOMAIN (cs \o ds) |->
                         [type |-> (cs \o ds)[k].kind, title |-> (cs \o ds)[k].source,
                          id |-> (cs \o ds)[k].id]],
         complaints |-> [k \in DOMAIN cs |-> [id |-> c_docs_std[k].index,
                                              snippet |-> cs[k].snippet]],
         documents |-> [k \in DOMAIN ds |-> [id |-> ds[k].id, title |-> ds[k].title,
                                             snippet |-> ds[k].snippet]]]

(* The handler of POST /api/search: every [response, vector_queries,       *)
(* graph_queries] it can end with.  vector_queries lists the               *)
(* similarity_search calls made, graph_queries counts the graph queries.   *)
(* search from "1. Search both indexes" on; hyde holds search_query and    *)
(* hypothetical_doc as the HyDE block left them.                           *)
SearchAfterHyde(app, G, request, e, hyde) ==
         LET search_query == hyde.search_query
         IN  IF hyde.raised
             THEN {[response |-> InternalServerError, vector_queries |-> <<>>,
                    graph_queries |-> 0]}
             ELSE IF e.vector # "ok"
             THEN {[response |-> VectorSearchFailed,
                    vector_queries |->
                        VectorCalls(search_query, IF e.vector = "fail_complaint" THEN 1 ELSE 2),
                    graph_queries |-> 0]}
             ELSE LET c_docs == e.c_hits[search_query]
                      d_docs == e.d_hits[search_query]
                      hits == [k \in DOMAIN c_docs |->
                                  [kind |-> "Complaint", index |-> c_docs[k].index,
                                   page_content |-> c_docs[k].page_content]]
                              \o [k \in DOMAIN d_docs |->
                                  [kind |-> "Document", doc_id |-> d_docs[k].doc_id,
                                   title |-> d_docs[k].title,
                                   page_content |-> d_docs[k].page_content]]
                      ab_ok == request.use_hyde /\ e.ab = "ok"
                  IN  {IF out.raised \/ e.llm = "fail"
                       THEN [response |-> InternalServerError,
                             vector_queries |-> VectorCalls(search_query, 2),
                             graph_queries |-> out.queries]
                       ELSE [response |->
                                [status |-> 200,
                                 answer |-> Answer(out.acc.combined_context, request.query),
                                 sources |-> out.acc.sources,
                                 context |-> [complaints |-> out.acc.complaints,
                                              documents |-> out.acc.documents],
                                 highlighted_nodes |-> out.acc.highlighted_nodes,
                                 search_method |-> IF request.use_hyde THEN "HyDE"
                                                   ELSE "Standard",
                                 hypothetical_document |-> IF request.use_hyde
                                                           THEN hyde.hypothetical_doc
                                                           ELSE NoText,
                                 standard |-> IF ab_ok THEN StandardSearch(request, e)
                                              ELSE NoStandard],
                             vector_queries |->
                                VectorCalls(search_query, 2)
                                \o (IF ~request.use_hyde THEN <<>>
                                    ELSE IF e.ab = "ok" THEN VectorCalls(request.query, 2)
                                    ELSE VectorCalls(request.query, 1)),
                             graph_queries |-> out.queries] :
                        out \in ProcessHits(app, G, hits, 1, e.graph_fail_at, NewAcc)}

search(app, G, request, e) ==
    IF ~app.complaint_vector \/ ~app.doc_vector
    THEN {[response |-> ServiceUnavailable, vector_queries |-> <<>>, graph_queries |-> 0]}
    ELSE SearchAfterHyde(app, G, request, e, HydeStep(request, e))

(***************************************************************************)
(* Inputs.  A body is a concatenation of at most MaxBodyFrags fragments:   *)
(* the header label, a complete identifier, the separator as the header    *)
(* writes it, and the single characters that create every boundary the     *)
(* patterns look at.  A padded content puts a short body across the end of *)
(* one of the two scan windows.                                            *)
(***************************************************************************)
MaxBodyFrags == 4
MaxPadSlack == 8

ID_FRAG == <<"G", "-", "1">>

RECURSIVE Flatten(_)
Flatten(fs) == IF fs = <<>> THEN <<>> ELSE Head(fs) \o Flatten(Tail(fs))

FragSeqs(F, n) == UNION {[1..k -> F] : k \in 0..n}

Bodies(F, n) == {Flatten(fs) : fs \in FragSeqs(F, n)}

ExtractFrags == {LABEL, ID_FRAG, <<"G">>, <<"-">>, <<"1">>, <<":">>, <<" ">>, <<":", " ">>}

WindowPads ==
    {w - k : w \in {OWN_FALLBACK_WINDOW, OWN_LABEL_WINDOW}, k \in 0..MaxPadSlack}

ExtractInputs(n) ==
    {[pre |-> 0, body |-> b] : b \in Bodies(ExtractFrags, n)}
    \cup {[pre |-> p, body |-> b] : p \in WindowPads, b \in Bodies(ExtractFrags, n - 2)}

MaxCorpusFrags == 3

(* The two documents of the corpus, in the order of the rows of the CSV. *)
DocIndexes == {1, 2}
CsvOrder == <<1, 2>>

CorpusFrags == {ID_FRAG, <<"G">>, <<"-">>, <<"1">>}

(* The contents of the two parsed files: at most MaxCorpusFrags fragments  *)
(* in all, dealt to the two files, with a document number somewhere.       *)
Corpora ==
    {c \in {[i \in DocIndexes |-> IF i = 1 THEN Flatten(SubSeq(fk[1], 1, fk[2]))
                                   ELSE Flatten(SubSeq(fk[1], fk[2] + 1, Len(fk[1])))] :
                fk \in {x \in FragSeqs(CorpusFrags, MaxCorpusFrags) \X (0..MaxCorpusFrags) :
                            x[2] <= Len(x[1])}} :
        \E i \in DocIndexes : DocNumSearch(c[i]) # NoMatch}

(* The Doc_Number cells: empty, an identifier, an identifier after a       *)
(* separator.                                                              *)
RawDocNumbers == {<<>>, ID_FRAG, <<":">> \o ID_FRAG \o <<"1">>}

DocsCsvRow(i, num) ==
    [Doc_Number |-> num,
     Document_Name |-> <<"T", ToString(i)>>,
     Author |-> IF i = 1 THEN "kim" ELSE "",
     Department |-> IF i = 1 THEN "youth" ELSE ""]

(***************************************************************************)
(* src/graph_db/api_server_real.py: what the statements the handlers send  *)
(* to the store do to it.  A statement is the set of its clauses.          *)
(***************************************************************************)
UpdatingClauses == {"CREATE", "MERGE", "SET", "REMOVE", "DELETE", "DETACH DELETE"}

(* MATCH (n) DETACH DELETE n, the statement build_graph opens with. *)
ComplaintQueryClausesDeleting == {"MATCH", "DETACH DELETE"}
ComplaintQueryClauses == {"MATCH", "OPTIONAL MATCH", "RETURN", "ORDER BY", "LIMIT"}
DocumentQueryClauses == {"MATCH", "OPTIONAL MATCH", "RETURN"}
OverviewNodesClauses == {"MATCH", "WHERE", "RETURN", "LIMIT"}
OverviewEdgesClauses == {"MATCH", "WHERE", "RETURN", "LIMIT", "IN"}

(* The store after a statement: as before when no clause updates; without  *)
(* the matched nodes and their relationships after MATCH (n) DETACH DELETE *)
(* n, the updating statement of this repository that takes no row.         *)
StoreAfterQuery(G, clauses) ==
    IF clauses \cap UpdatingClauses = {} THEN G
    ELSE [G EXCEPT !.nodes = {}, !.edges = EmptyBag]

RECURSIVE StoreAfterQueries(_, _)
StoreAfterQueries(G, statements) ==
    IF statements = <<>> THEN G
    ELSE StoreAfterQueries(StoreAfterQuery(G, Head(statements)), Tail(statements))

(* The statements of a search that sent n of them: each is the one of      *)
(* get_complaint_context or the one of get_document_context.               *)
ExpansionStatements(n) ==
    [k \in 1..n |-> ComplaintQueryClauses \cup DocumentQueryClauses]

(***************************************************************************)
(* src/graph_db/api_server_real.py: graph_overview.                        *)
(***************************************************************************)
OVERVIEW_LABELS == {"Document", "Complaint", "Person", "Department"}
OVERVIEW_EDGE_LIMIT == 400

(* display_name: the first of title, name, doc_id, index that is truthy. *)
DisplayName(n) ==
    IF n.title # NullText THEN n.title
    ELSE IF n.name # NullName THEN <<n.name>>
    ELSE IF n.doc_id # NullText THEN n.doc_id
    ELSE <<ToString(n.index)>>

NodePayload(n) == [id |-> n.id, display |-> DisplayName(n), primary_label |-> n.label]

Subsets(S, k) == {T \in SUBSET S : Cardinality(T) = Min(k, Cardinality(S))}

(* What graph_overview(limit) answers and the statements it sends;         *)
(* fail_at is the statement that raises, 0 for none.  LIMIT keeps any      *)
(* rows, the statements order nothing.                                     *)
graph_overview(app, G, limit, fail_at) ==
    IF ~app.graph THEN {[response |-> [status |-> 503], statements |-> <<>>]}
    ELSE IF fail_at = 1
    THEN {[response |-> [status |-> 500], statements |-> <<OverviewNodesClauses>>]}
    ELSE UNION {
        IF nodes = {}
        THEN {[response |-> [status |-> 200, nodes |-> {}, edges |-> {}],
               statements |-> <<OverviewNodesClauses>>]}
        ELSE IF fail_at = 2
        THEN {[response |-> [status |-> 500],
               statements |-> <<OverviewNodesClauses, OverviewEdgesClauses>>]}
        ELSE {[response |-> [status |-> 200,
                             nodes |-> {NodePayload(n) : n \in nodes},
                             edges |-> {[source |-> e.src, target |-> e.dst, type |-> e.type] :
                                           e \in edges}],
               statements |-> <<OverviewNodesClauses, OverviewEdgesClauses>>] :
                 edges \in Subsets({e \in DOMAIN G.edges :
                                       /\ \E n \in nodes : n.id = e.src
                                       /\ \E n \in nodes : n.id = e.dst},
                                   OVERVIEW_EDGE_LIMIT)} :
        nodes \in Subsets({n \in G.nodes : n.label \in OVERVIEW_LABELS}, limit)}

(***************************************************************************)
(* Inputs of the search service: the stores it may find, the requests it   *)
(* may get, and what its collaborators may do during a request.            *)
(***************************************************************************)
StoreDocsCsv ==
    [i \in DocIndexes |-> DocsCsvRow(i, IF i = 1 THEN ID_FRAG ELSE ID_FRAG \o <<"1">>)]

(* Document 1 cites document 2. *)
StoreFiles == [i \in DocIndexes |-> IF i = 1 THEN ID_FRAG \o <<"1">> ELSE <<>>]

StoreRelations ==
    WriteCsv(NoFile, "scripts",
             ScriptsRows(CsvOrder, StoreFiles, ScriptsDocMap(CsvOrder, StoreDocsCsv, <<>>)))

DocumentStore == build_graph(EmptyGraph, CsvOrder, StoreDocsCsv, StoreRelations).g

(* Complaint 1 is near both documents, complaint 2 near neither. *)
StoreScore ==
    [c \in {1, 2} |-> [d \in DocIndexes |-> IF c = 1 THEN (IF d = 1 THEN 80 ELSE 60)
                                           ELSE (IF d = 1 THEN 50 ELSE 30)]]

FullStore == add_complaints(DocumentStore, <<1, 2>>, StoreScore)

(* The documents' store after document 1 has lost its author: a store the  *)
(* tools above never leave, but one the database can hold.                 *)
OrphanStore ==
    LET d == NodeId(DocumentStore, "Document", 1, NullName)
        kept == {e \in DOMAIN DocumentStore.edges : ~(e.type = "AUTHORED" /\ e.dst = d)}
    IN  [DocumentStore EXCEPT !.edges = [e \in kept |-> DocumentStore.edges[e]]]

SearchStores == {EmptyGraph, DocumentStore, FullStore, OrphanStore}

Questions == {<<"q">>}

Requests == [query : Questions, use_hyde : BOOLEAN]

SearchTexts == Questions \cup {generate_hypothetical_document(q) : q \in Questions}

ComplaintHit(n) ==
    [index |-> n.index, page_content |-> <<"complaint", ToString(n.index)>>]

DocumentHit(n) ==
    [doc_id |-> n.doc_id, title |-> n.title,
     page_content |-> <<"document", ToString(n.index)>>]

(* similarity_search(query, k=2): the TOP_K nearest nodes of the index, in *)
(* any order of nearness.                                                  *)
HitLists(S) ==
    {f \in [1..Min(TOP_K, Cardinality(S)) -> S] : \A a, b \in DOMAIN f : f[a] = f[b] => a = b}

Envs(G) ==
    [hyde : {"ok", "fail"},
     vector : {"ok", "fail_complaint", "fail_doc"},
     llm : {"ok", "fail"},
     ab : {"ok", "fail"},
     graph_fail_at : 0..(2 * TOP_K),
     c_hits : [SearchTexts -> HitLists({ComplaintHit(n) : n \in NodesOf(G, "Complaint")})],
     d_hits : [SearchTexts -> HitLists({DocumentHit(n) : n \in NodesOf(G, "Document")})]]

(* What lifespan leaves in state: nothing when the connection to the       *)
(* store fails, else the store and whichever vector indexes loaded.        *)
LifespanOutcomes ==
    {[graph |-> FALSE, doc_vector |-> FALSE, complaint_vector |-> FALSE]}
    \cup [graph : {TRUE}, doc_vector : BOOLEAN, complaint_vector : BOOLEAN]

(***************************************************************************)
(* State.                                                                  *)
(***************************************************************************)
VARIABLES
    content,        \* extract_own_doc_number: the argument
    own_doc_num,    \* extract_own_doc_number: the value returned
    xpc,            \* "idle" | "call" | "returned"
    docs_csv,       \* seoul_youth_allowance_others_with_docnum.csv: Index -> row
    parsed_files,   \* <Index>_parsed.md: Index -> content
    glob_order,     \* the order in which glob lists the parsed files
    doc_map,        \* the doc_map of the last resolver run
    relations_csv,  \* citation_relations.csv: [header, rows]
    graph,          \* the graph store
    df_cites,       \* the relations the last build_graph read
    build_status,   \* how the last build_graph ended
    doc_context,    \* the last get_document_context: [asked, result]
    app_state,      \* api_server_real.state: which of graph, doc_vector, complaint_vector is set
    server_pc,      \* "off" | "starting" | "idle" | "responded" | "overviewed" | "health"
    request,        \* the search request being served
    env,            \* what the collaborators did during the request
    response,       \* the response to the request
    vector_queries, \* the similarity_search calls of the request
    graph_queries,  \* the number of state.graph.query calls of the request
    expanded,       \* the last get_expanded_context of 202_neo4j_hybrid_rag: [title, fragment]
    complaint_context, \* the last get_complaint_context: [asked, result]
    overview,       \* the last response of graph_overview
    store_runs,     \* the ingestion runs so far (SpecStore)
    in_flight,      \* the search handlers running together: handler -> its locals
    health_reply,   \* the last reply of GET /health
    bundle,         \* search(): the hits and the combined_context assembled from them
    job             \* process_file of storm_parse_documents: its locals and effects

vars == <<content, own_doc_num, xpc, docs_csv, parsed_files, glob_order, doc_map,
          relations_csv, graph, df_cites, build_status, doc_context,
          app_state, server_pc, request, env, response, vector_queries,
          graph_queries, expanded, complaint_context, overview, store_runs,
          in_flight, health_reply, bundle, job>>

extractVars == <<content, own_doc_num, xpc>>
corpusVars == <<docs_csv, parsed_files, glob_order>>
toolVars == <<docs_csv, parsed_files, glob_order, doc_map, relations_csv, df_cites,
              build_status, doc_context>>
pipelineVars == <<docs_csv, parsed_files, glob_order, doc_map, relations_csv, graph,
                  df_cites, build_status, doc_context>>

NoContext == [asked |-> 0, result |-> EmptyDocumentContext]

searchVars == <<app_state, server_pc, request, env, response, vector_queries,
                graph_queries, expanded>>

NoExpanded == [title |-> NoText, fragment |-> <<>>]

workerVars == <<health_reply, bundle, job>>

serviceVars == <<complaint_context, overview, store_runs, in_flight, health_reply,
                 bundle, job>>

Handlers == {1, 2}

NoComplaintContext == [asked |-> 0, result |-> EmptyComplaintContext]
NoOverview == [status |-> 0]
NoHyde == [raised |-> FALSE, search_query |-> NoText, hypothetical_doc |-> NoText]

NoRequest == [query |-> NoText, use_hyde |-> FALSE]
NoEnv == [hyde |-> "none"]
NoResponse == [status |-> 0]
NoHandler ==
    [pc |-> "none", request |-> NoRequest, env |-> NoEnv, hyde |-> NoHyde,
     response |-> NoResponse]

NoHealth == [status |-> "none"]
NoBundle == [pc |-> "none"]
NoJob == [pc |-> "none"]

IdleService ==
    /\ complaint_context = NoComplaintContext
    /\ overview = NoOverview
    /\ store_runs = 0
    /\ in_flight = [h \in Handlers |-> NoHandler]
    /\ health_reply = NoHealth
    /\ bundle = NoBundle
    /\ job = NoJob


IdleExtract ==
    /\ content = [pre |-> 0, body |-> <<>>]
    /\ own_doc_num = NoMatch
    /\ xpc = "idle"

IdleTools ==
    /\ docs_csv = [i \in DocIndexes |-> DocsCsvRow(i, <<>>)]
    /\ parsed_files = [i \in DocIndexes |-> <<>>]
    /\ glob_order = CsvOrder
    /\ doc_map = <<>>
    /\ relations_csv = NoFile
    /\ df_cites = NoFile
    /\ build_status = "none"
    /\ doc_context = NoContext

IdlePipeline == IdleTools /\ graph = EmptyGraph

NoRequestYet ==
    /\ request = NoRequest
    /\ env = NoEnv
    /\ response = NoResponse
    /\ vector_queries = <<>>
    /\ graph_queries = 0

IdleSearch ==
    /\ app_state = [graph |-> FALSE, doc_vector |-> FALSE, complaint_vector |-> FALSE]
    /\ server_pc = "off"
    /\ NoRequestYet
    /\ expanded = NoExpanded

(***************************************************************************)
(* SpecExtract: extract_own_doc_number applied to every input.             *)
(***************************************************************************)
InitExtract ==
    /\ content \in ExtractInputs(MaxBodyFrags)
    /\ own_doc_num = NoMatch
    /\ xpc = "call"
    /\ IdlePipeline
    /\ IdleSearch
    /\ IdleService

ExtractOwn ==
    /\ xpc = "call"
    /\ own_doc_num' = extract_own_doc_number(content)
    /\ xpc' = "returned"
    /\ UNCHANGED content
    /\ UNCHANGED pipelineVars
    /\ UNCHANGED searchVars
    /\ UNCHANGED serviceVars

NextExtract == ExtractOwn

SpecExtract == InitExtract /\ [][NextExtract]_vars

(***************************************************************************)
(* Spec: the ingestion pipeline over a two-document corpus.  Either        *)
(* resolver writes the relations file, build_graph loads the documents and *)
(* the relations into the store, get_document_context reads the store.     *)
(***************************************************************************)
Init ==
    /\ IdleExtract
    /\ IdleSearch
    /\ IdleService
    /\ parsed_files \in Corpora
    /\ docs_csv \in {[i \in DocIndexes |-> DocsCsvRow(i, nums[i])] :
                        nums \in [DocIndexes -> RawDocNumbers]}
    /\ glob_order \in SetOrders(DocIndexes)
    /\ doc_map = <<>>
    /\ relations_csv = NoFile
    /\ graph = EmptyGraph
    /\ df_cites = NoFile
    /\ build_status = "none"
    /\ doc_context = NoContext

(* The iteration orders of set(findall(content)), one per file. *)
TokenOrders ==
    {t \in [DOMAIN parsed_files ->
                UNION {SetOrders(TokenSet(parsed_files[i])) : i \in DOMAIN parsed_files}] :
        \A i \in DOMAIN parsed_files : t[i] \in SetOrders(TokenSet(parsed_files[i]))}

(* df.iterrows(): the rows of the CSV in file order. *)
RowOrder(csv) == [k \in 1..Len(csv) |-> k]

(* extract_relations() of src/extract_relations.py *)
RunRootResolver ==
    /\ \E toks \in TokenOrders :
          LET d == RootDocMap(glob_order, parsed_files, <<>>)
          IN  /\ doc_map' = d
              /\ relations_csv' = WriteCsv(relations_csv, "root",
                                           RootRows(glob_order, parsed_files, toks, d))
    /\ UNCHANGED <<corpusVars, graph, df_cites, build_status, doc_context>>
    /\ UNCHANGED extractVars
    /\ UNCHANGED searchVars
    /\ UNCHANGED serviceVars

(* main() of src/scripts/extract_relations.py *)
RunScriptsResolver ==
    /\ LET d == ScriptsDocMap(RowOrder(docs_csv), docs_csv, <<>>)
       IN  /\ doc_map' = d
           /\ relations_csv' = WriteCsv(relations_csv, "scripts",
                                        ScriptsRows(glob_order, parsed_files, d))
    /\ UNCHANGED <<corpusVars, graph, df_cites, build_status, doc_context>>
    /\ UNCHANGED extractVars
    /\ UNCHANGED searchVars
    /\ UNCHANGED serviceVars

(* build_graph() of src/graph_db/301_build_real_graph.py *)
BuildGraph ==
    /\ LET b == build_graph(graph, CsvOrder, docs_csv, relations_csv)
       IN  graph' = b.g /\ build_status' = b.status
    /\ df_cites' = relations_csv
    /\ doc_context' = NoContext
    /\ UNCHANGED <<corpusVars, doc_map, relations_csv>>
    /\ UNCHANGED extractVars
    /\ UNCHANGED searchVars
    /\ UNCHANGED serviceVars

(* get_document_context(doc_id of document i); result[0] is any row of the *)
(* query, which states no order.                                           *)
GetDocumentContext(i) ==
    /\ build_status # "none"
    /\ LET id == CleanedRow(i, docs_csv[i]).doc_id
           rows == DocumentRows(graph, id)
       IN  \/ /\ rows = {}
              /\ doc_context' = [asked |-> i, result |-> EmptyDocumentContext]
           \/ \E row \in rows :
                 doc_context' = [asked |-> i, result |-> DocumentContextOf(row)]
    /\ UNCHANGED <<corpusVars, doc_map, relations_csv, graph, df_cites, build_status>>
    /\ UNCHANGED extractVars
    /\ UNCHANGED searchVars
    /\ UNCHANGED serviceVars

Next ==
    \/ RunRootResolver
    \/ RunScriptsResolver
    \/ BuildGraph
    \/ \E i \in DocIndexes : GetDocumentContext(i)

Spec == Init /\ [][Next]_vars

(***************************************************************************)
(* Properties of the pipeline.                                             *)
(***************************************************************************)
RowSet(rows) == {rows[k] : k \in 1..Len(rows)}

(* <<source index, target index>> of every CITES relationship. *)
CitesPairs(G) ==
    {<<NodeById(G, e.src).index, NodeById(G, e.dst).index>> : e \in EdgeSet(G, "CITES")}

(* The last build_graph read the relations file as it now is. *)
Ingested == build_status # "none" /\ df_cites = relations_csv

(* C1: no row of the relations file and no CITES relationship of the store *)
(* has its source document index equal to its target document index,       *)
(* whichever resolver wrote the file.                                      *)
C1_NoSelfCitation ==
    /\ \A r \in RowSet(relations_csv.rows) : r.source # r.target
    /\ \A e \in EdgeSet(graph, "CITES") :
          e.src # e.dst /\ NodeById(graph, e.src).index # NodeById(graph, e.dst).index

(* A document holds its own number, where a following character allows a   *)
(* match, and the relations written have been loaded into the store.       *)
C1_Witness ==
    /\ \E k \in 1..Len(doc_map) :
          LookaheadSearch(parsed_files[doc_map[k].val], doc_map[k].key) # 0
    /\ relations_csv.rows # <<>>
    /\ Ingested
    /\ build_status = "ok"
    /\ CitesPairs(graph) # {}

(* C2: a row citing the number X from a document exists only when some     *)
(* occurrence of X in that document is followed by neither a digit nor a   *)
(* hyphen, whichever resolver wrote the file.                              *)
C2_BoundaryRespected ==
    \A r \in RowSet(relations_csv.rows) :
        \E s \in Occurrences(parsed_files[r.source], r.num) :
            Bounded(parsed_files[r.source], r.num, s)

(* The own number of document i, as the resolver that wrote the relations  *)
(* file takes it: from the content, or from the Doc_Number cell.           *)
OwnIdentifier(i) ==
    IF relations_csv.header = "root"
    THEN LET n == extract_own_doc_number(Plain(parsed_files[i]))
         IN  IF n = NoMatch THEN NoMatch ELSE Strip(n)
    ELSE clean_doc_num(docs_csv[i].Doc_Number)

(* C3: when document 2 is the document whose own number is X (document 1's *)
(* own number is another, or none) and document 1 holds X followed by      *)
(* neither a digit nor a hyphen, the relations are exactly one row, from 1 *)
(* to 2 and citing X, and no row goes from 2 to 2.                         *)
C3_ExactlyOneEdge ==
    LET X == OwnIdentifier(2)
        citing == {k \in 1..Len(relations_csv.rows) : relations_csv.rows[k].num = X}
    IN  (/\ relations_csv.header # "absent"
         /\ X # NoMatch
         /\ OwnIdentifier(1) # X
         /\ LookaheadSearch(parsed_files[1], X) # 0)
        => /\ Cardinality(citing) = 1
           /\ \A k \in citing : /\ relations_csv.rows[k].source = 1
                                /\ relations_csv.rows[k].target = 2
           /\ \A r \in RowSet(relations_csv.rows) : ~(r.source = 2 /\ r.target = 2)

(* C4: the relations file holds at most one row for a source document and  *)
(* a cited number.                                                         *)
C4_AtMostOneEdge ==
    \A k, l \in 1..Len(relations_csv.rows) :
        (/\ relations_csv.rows[k].source = relations_csv.rows[l].source
         /\ relations_csv.rows[k].num = relations_csv.rows[l].num) => k = l

(* A row whose cited number stands more than once in its source document. *)
C4_Witness ==
    \E r \in RowSet(relations_csv.rows) :
        Cardinality(Occurrences(parsed_files[r.source], r.num)) >= 2

(* C5: the cited number of every row is a key of doc_map and the row's     *)
(* target is the index doc_map holds for it; a number-shaped token of a    *)
(* document that is no key of doc_map is the cited number of no row of     *)
(* that document.                                                          *)
C5_EdgesFollowMap ==
    /\ \A r \in RowSet(relations_csv.rows) :
          \E k \in 1..Len(doc_map) : doc_map[k].key = r.num /\ doc_map[k].val = r.target
    /\ \A i \in DocIndexes : \A tok \in TokenSet(parsed_files[i]) :
          (\A k \in 1..Len(doc_map) : doc_map[k].key # tok)
          => \A r \in RowSet(relations_csv.rows) : ~(r.source = i /\ r.num = tok)

(* Rows have been written while a document holds a token doc_map lacks. *)
C5_Witness ==
    /\ relations_csv.rows # <<>>
    /\ \E i \in DocIndexes : \E tok \in TokenSet(parsed_files[i]) :
          \A k \in 1..Len(doc_map) : doc_map[k].key # tok

(***************************************************************************)
(* C6.  The reference extract_own_doc_number is compared with, written     *)
(* from the grammar of a DocumentNumber rather than as a scan.             *)
(***************************************************************************)
(* u is a DocumentNumber: Hangul words joined by single spaces, a hyphen,  *)
(* digits.                                                                 *)
IsDocNumber(u) ==
    \E k \in 2..(Len(u) - 1) :
        /\ u[k] = "-"
        /\ \A m \in (k + 1)..Len(u) : u[m] \in Digit
        /\ \A m \in 1..(k - 1) : u[m] \in Hangul \cup {" "}
        /\ u[1] \in Hangul /\ u[k - 1] \in Hangul
        /\ \A m \in 1..(k - 2) : ~(u[m] = " " /\ u[m + 1] = " ")

(* g is an optional separator with optional whitespace around it. *)
IsLabelGap(g) ==
    /\ \A m \in 1..Len(g) : g[m] \in Whitespace \cup Separator
    /\ Cardinality({m \in 1..Len(g) : g[m] \in Separator}) <= 1

DocNumberSpans(w) ==
    {ab \in {a \in 1..Len(w) : w[a] \in Hangul} \X {b \in 1..Len(w) : w[b] \in Digit} :
        ab[1] <= ab[2] /\ IsDocNumber(SubSeq(w, ab[1], ab[2]))}

(* <<p, a, b>>: the label at p, the gap, a DocumentNumber at a..b. *)
LabelledSpans(w) ==
    LET D == DocNumberSpans(w)
    IN  {pab \in {p \in 1..Len(w) : LabelAt(w, p)} \X (1..Len(w)) \X (1..Len(w)) :
            /\ <<pab[2], pab[3]>> \in D
            /\ pab[1] + Len(LABEL) <= pab[2]
            /\ IsLabelGap(SubSeq(w, pab[1] + Len(LABEL), pab[2] - 1))}

ReferenceOwnId(t) ==
    LET w1 == WindowBody(t, OWN_LABEL_WINDOW)
        w2 == WindowBody(t, OWN_FALLBACK_WINDOW)
        L == LabelledSpans(w1)
        D == DocNumberSpans(w2)
    IN  IF L # {}
        THEN LET first == CHOOSE x \in L :
                              \A y \in L : x[1] < y[1] \/ (x[1] = y[1] /\ x[3] >= y[3])
             IN  SubSeq(w1, first[2], first[3])
        ELSE IF D # {}
        THEN LET first == CHOOSE x \in D :
                              \A y \in D : x[1] < y[1] \/ (x[1] = y[1] /\ x[2] >= y[2])
             IN  SubSeq(w2, first[1], first[2])
        ELSE NoMatch

(* The example of the claim: the label, ": " and the identifier. *)
LabelledExample == LABEL \o <<":", " ">> \o ID_FRAG

(* Offsets o at which the example lies in the content, wholly inside the   *)
(* first 200 characters.                                                   *)
ExampleOffsets(t) ==
    {o \in 1..Len(t.body) :
        /\ o + Len(LabelledExample) - 1 <= Len(t.body)
        /\ SubSeq(t.body, o, o + Len(LabelledExample) - 1) = LabelledExample
        /\ t.pre + o + Len(LabelledExample) - 1 <= 200}

C6_AgreesWithReference ==
    xpc = "returned" => own_doc_num = ReferenceOwnId(content)

(* The first 1000 characters hold no DocumentNumber: nothing is returned. *)
C6_NoneWithoutDocNumber ==
    (xpc = "returned" /\ DocNumberSpans(WindowBody(content, OWN_LABEL_WINDOW)) = {})
        => own_doc_num = NoMatch

(* C6 as stated: extract_own_doc_number agrees with the reference, and     *)
(* every text with the labelled example in its first 200 characters        *)
(* returns the example's identifier.                                       *)
C6_Original ==
    /\ C6_AgreesWithReference
    /\ C6_NoneWithoutDocNumber
    /\ (xpc = "returned" /\ ExampleOffsets(content) # {}) => own_doc_num = ID_FRAG

(* C6 amended: extract_own_doc_number agrees with the reference (first     *)
(* labelled DocumentNumber of the first 1000 characters, read to the end   *)
(* of its digit run; else first DocumentNumber of the first 500; else      *)
(* none), and a text with the labelled example in its first 200 characters *)
(* returns the example's identifier when no label precedes the example and *)
(* no digit follows it.                                                    *)
C6_ExtractOwnId ==
    /\ C6_AgreesWithReference
    /\ C6_NoneWithoutDocNumber
    /\ (/\ xpc = "returned"
        /\ \E o \in ExampleOffsets(content) :
               /\ \A q \in 1..(o - 1) : ~LabelAt(content.body, q)
               /\ CharAt(content.body, o + Len(LabelledExample)) \notin Digit)
        => own_doc_num = ID_FRAG

(* The labelled identifier is returned although a different unlabelled     *)
(* DocumentNumber stands earlier in the text.                              *)
C6_Witness ==
    /\ xpc = "returned"
    /\ own_doc_num = ID_FRAG
    /\ LabelledSearch(WindowBody(content, OWN_LABEL_WINDOW)) = ID_FRAG
    /\ extract_own_doc_number_no_label(content) \notin {NoMatch, ID_FRAG}


(***************************************************************************)
(* Re-running the tools, and the pipeline end to end.                      *)
(***************************************************************************)
(* A step that leaves the relations file under the header it had: the      *)
(* rows are the same rows, as many as before.                              *)
RerunResolver ==
    (relations_csv.header # "absent" /\ relations_csv'.header = relations_csv.header)
    => /\ RowSet(relations_csv'.rows) = RowSet(relations_csv.rows)
       /\ Len(relations_csv'.rows) = Len(relations_csv.rows)

(* A step from a completed build to a completed build of the same          *)
(* relations: the CITES pairs are the same.                                *)
RerunBuild ==
    (/\ build_status = "ok" /\ build_status' = "ok"
     /\ df_cites.header = df_cites'.header
     /\ RowSet(df_cites.rows) = RowSet(df_cites'.rows))
    => CitesPairs(graph') = CitesPairs(graph)

OneCitesPerPair ==
    \A e \in DOMAIN graph.edges : e.type = "CITES" => graph.edges[e] = 1

(* C7: running a resolver again over the unchanged corpus leaves the       *)
(* relations file with the same rows (replaced, not appended to), running  *)
(* build_graph again over the same relations leaves the same CITES pairs,  *)
(* and the store never holds two CITES relationships for one pair.         *)
C7_Idempotent == []OneCitesPerPair /\ [][RerunResolver /\ RerunBuild]_vars

(* Relations have been written and loaded, and the store holds a CITES     *)
(* relationship: every tool is enabled again from here.                    *)
C7_Witness ==
    /\ Len(relations_csv.rows) >= 1
    /\ Ingested
    /\ \E e \in DOMAIN graph.edges : e.type = "CITES"

(* Document A holds, followed by neither a digit nor a hyphen, a token     *)
(* that doc_map gives to document B, and the two Doc_Number cells differ.   *)
Cites(A, B) ==
    /\ A # B
    /\ CleanedRow(A, docs_csv[A]).doc_id # CleanedRow(B, docs_csv[B]).doc_id
    /\ \E k \in 1..Len(doc_map) :
          /\ doc_map[k].val = B
          /\ doc_map[k].key \in TokenSet(parsed_files[A])
          /\ LookaheadSearch(parsed_files[A], doc_map[k].key) # 0

(* C8: once a resolver has written the relations and build_graph has read  *)
(* them, the store holds a CITES relationship from A to B for every        *)
(* document A that holds document B's number, and get_document_context for *)
(* A returns B among the citations.                                        *)
C8_EndToEnd ==
    \A A, B \in DocIndexes :
        (relations_csv.header # "absent" /\ Ingested /\ Cites(A, B))
        => /\ <<A, B>> \in CitesPairs(graph)
           /\ (doc_context.asked = A
               => \E c \in doc_context.result.metadata.citations :
                     c.doc_id = CleanedRow(B, docs_csv[B]).doc_id)

(***************************************************************************)
(* SpecSearch: the search service over a store.  lifespan runs once, then  *)
(* requests are served one at a time (the handler never awaits).           *)
(***************************************************************************)
InitSearch ==
    /\ IdleExtract
    /\ IdleService
    /\ IdleTools
    /\ graph \in SearchStores
    /\ app_state = [graph |-> FALSE, doc_vector |-> FALSE, complaint_vector |-> FALSE]
    /\ server_pc = "starting"
    /\ NoRequestYet
    /\ expanded = NoExpanded

(* lifespan() of src/graph_db/api_server_real.py *)
Lifespan ==
    /\ server_pc = "starting"
    /\ app_state' \in LifespanOutcomes
    /\ server_pc' = "idle"
    /\ UNCHANGED <<request, env, response, vector_queries, graph_queries, expanded>>
    /\ UNCHANGED <<extractVars, pipelineVars, serviceVars>>

(* search() of src/graph_db/api_server_real.py *)
Search ==
    /\ server_pc = "idle"
    /\ \E req \in Requests, e \in Envs(graph) :
          \E out \in search(app_state, graph, req, e) :
              /\ request' = req
              /\ env' = e
              /\ response' = out.response
              /\ vector_queries' = out.vector_queries
              /\ graph_queries' = out.graph_queries
              /\ graph' = StoreAfterQueries(graph, ExpansionStatements(out.graph_queries))
    /\ server_pc' = "responded"
    /\ UNCHANGED <<app_state, expanded>>
    /\ UNCHANGED <<extractVars, toolVars, serviceVars>>

(* The limits graph_overview is asked with: one node, and the default. *)
OverviewLimits == {1, 300}

(* graph_overview() of src/graph_db/api_server_real.py *)
GraphOverview ==
    /\ server_pc = "idle"
    /\ \E limit \in OverviewLimits, fail_at \in 0..2 :
          \E out \in graph_overview(app_state, graph, limit, fail_at) :
              /\ overview' = out.response
              /\ graph' = StoreAfterQueries(graph, out.statements)
    /\ server_pc' = "overviewed"
    /\ UNCHANGED <<app_state, request, env, response, vector_queries, graph_queries,
                   expanded>>
    /\ UNCHANGED <<extractVars, toolVars, complaint_context, store_runs, in_flight,
                   workerVars>>

(* health() of src/graph_db/api_server_real.py *)
health == [status |-> "ok"]

Health ==
    /\ server_pc = "idle"
    /\ health_reply' = health
    /\ server_pc' = "health"
    /\ UNCHANGED <<app_state, request, env, response, vector_queries, graph_queries,
                   expanded>>
    /\ UNCHANGED <<extractVars, pipelineVars, complaint_context, overview, store_runs,
                   in_flight, bundle, job>>

(* The response has gone to the client. *)
Return ==
    /\ server_pc \in {"responded", "overviewed", "health"}
    /\ server_pc' = "idle"
    /\ request' = NoRequest
    /\ env' = NoEnv
    /\ response' = NoResponse
    /\ vector_queries' = <<>>
    /\ graph_queries' = 0
    /\ overview' = NoOverview
    /\ UNCHANGED <<app_state, expanded>>
    /\ health_reply' = NoHealth
    /\ UNCHANGED <<extractVars, pipelineVars, complaint_context, store_runs, in_flight,
                   bundle, job>>

(* The titles get_expanded_context is asked about: those of the store's    *)
(* documents, and one no document has.                                     *)
AskedTitles == {n.title : n \in NodesOf(graph, "Document")} \cup {<<"T", "0">>}

(* get_expanded_context(doc_title) of src/graph_db/202_neo4j_hybrid_rag.py *)
GetExpandedContext ==
    /\ \E t \in AskedTitles : \E f \in get_expanded_context(graph, t) :
          expanded' = [title |-> t, fragment |-> f]
    /\ UNCHANGED <<app_state, server_pc, request, env, response, vector_queries,
                   graph_queries>>
    /\ UNCHANGED <<extractVars, pipelineVars, serviceVars>>

NextSearch ==
    Lifespan \/ Search \/ Return \/ GetExpandedContext \/ GraphOverview \/ Health

SpecSearch == InitSearch /\ [][NextSearch]_vars

(***************************************************************************)
(* Properties of the search service.                                       *)
(***************************************************************************)
VectorsReady == app_state.complaint_vector /\ app_state.doc_vector

(* C9: a request with use_hyde set whose hypothetical document could not   *)
(* be generated passes the raw question to both vector searches, and ends  *)
(* as the same request with use_hyde unset ends when the collaborators do  *)
(* the same: the same status, and with it the same answer, sources,        *)
(* context and highlighted nodes.                                          *)
C9_HydeFailureFallsBack ==
    (server_pc = "responded" /\ request.use_hyde /\ env.hyde = "fail" /\ VectorsReady)
    => /\ Len(vector_queries) >= 1
       /\ \A k \in 1..Min(2, Len(vector_queries)) : vector_queries[k].query = request.query
       /\ \E plain \in search(app_state, graph, [request EXCEPT !.use_hyde = FALSE], env) :
             /\ plain.response.status = response.status
             /\ plain.vector_queries = Prefix(vector_queries, 2)
             /\ (response.status # 200) => (plain.response = response)
             /\ (response.status = 200)
                => /\ plain.response.answer = response.answer
                   /\ plain.response.sources = response.sources
                   /\ plain.response.context = response.context
                   /\ plain.response.highlighted_nodes = response.highlighted_nodes

(* A request with use_hyde set, whose hypothetical document could not be   *)
(* generated, has been answered from hits of both indexes.                 *)
C9_Witness ==
    /\ server_pc = "responded"
    /\ request.use_hyde
    /\ env.hyde = "fail"
    /\ response.status = 200
    /\ Len(response.context.complaints) >= 1
    /\ Len(response.context.documents) >= 1

(* The number of hits the request expands. *)
HitCount ==
    Len(env.c_hits[HydeStep(request, env).search_query])
    + Len(env.d_hits[HydeStep(request, env).search_query])

(* C10: when the graph query of one hit's expansion fails and nothing else *)
(* does, the request is answered, with a source for every hit and an empty *)
(* expansion for the hit whose query failed.                               *)
C10_ExpansionFailureContained ==
    (/\ server_pc = "responded" /\ VectorsReady /\ app_state.graph
     /\ env.vector = "ok" /\ env.llm = "ok"
     /\ env.graph_fail_at \in 1..HitCount)
    => /\ response.status = 200
       /\ Len(response.sources) = HitCount
       /\ response.answer.context[env.graph_fail_at].context_text = <<>>

(* The query the two vector searches of the request are given. *)
SearchQuery == HydeStep(request, env).search_query

(* C11: when one of the two similarity searches of a request fails and     *)
(* nothing else does, the request is answered from the hits of the other   *)
(* index: the failed call counts as no hits.                               *)
C11_VectorFailureDegrades ==
    (/\ server_pc = "responded" /\ VectorsReady
     /\ env.vector # "ok" /\ env.llm = "ok" /\ env.graph_fail_at = 0)
    => /\ response.status = 200
       /\ Len(response.sources)
            = IF env.vector = "fail_complaint" THEN Len(env.d_hits[SearchQuery])
              ELSE Len(env.c_hits[SearchQuery])

(* C12: when the retrieval of a request succeeded and the generation of    *)
(* the answer fails, the response is an error that carries the sources     *)
(* retrieved, one per hit.                                                 *)
C12_GenerationFailureKeepsSources ==
    (/\ server_pc = "responded" /\ VectorsReady
     /\ env.vector = "ok" /\ env.graph_fail_at = 0 /\ env.llm = "fail"
     /\ HitCount >= 1)
    => /\ response.status >= 400
       /\ "sources" \in DOMAIN response
       /\ Len(response.sources) = HitCount

(* The hits of the two indexes for the query of the request. *)
ComplaintHits == env.c_hits[SearchQuery]
DocumentHits == env.d_hits[SearchQuery]

(* C13: a search response holds one context fragment and one {type, id,    *)
(* title} source per vector hit, the Complaint hits before the Document    *)
(* hits, each group in the order its index returned it.                    *)
C13_OneEntryPerHit ==
    (server_pc = "responded" /\ response.status = 200)
    => LET c == ComplaintHits
           d == DocumentHits
           ctx == response.answer.context
       IN  /\ Len(response.sources) = Len(c) + Len(d)
           /\ Len(ctx) = Len(c) + Len(d)
           /\ \A k \in 1..Len(c) :
                 /\ response.sources[k]
                      = [type |-> "Complaint",
                         title |-> Prefix(c[k].page_content, SNIPPET_CHARS),
                         id |-> <<ToString(c[k].index)>>]
                 /\ ctx[k].kind = "Complaint"
                 /\ ctx[k].snippet = Prefix(c[k].page_content, SNIPPET_CHARS)
           /\ \A k \in 1..Len(d) :
                 /\ response.sources[Len(c) + k]
                      = [type |-> "Document", title |-> d[k].title, id |-> d[k].doc_id]
                 /\ ctx[Len(c) + k].kind = "Document"
                 /\ ctx[Len(c) + k].title = d[k].title
                 /\ ctx[Len(c) + k].snippet = Prefix(d[k].page_content, SNIPPET_CHARS)

(* A response to two Complaint hits and two Document hits, neither group   *)
(* returned in the order of its indexes.                                   *)
C13_Witness ==
    /\ server_pc = "responded"
    /\ response.status = 200
    /\ Len(ComplaintHits) = 2 /\ Len(DocumentHits) = 2
    /\ ComplaintHits[1].index > ComplaintHits[2].index
    /\ DocumentHits[1].title # <<"T", "1">>

(* The documents of the store no Person has AUTHORED. *)
Authorless ==
    {d \in NodesOf(graph, "Document") :
        \A e \in EdgeSet(graph, "AUTHORED") : e.dst # d.id}

HasAuthorLine(fragment) == \E k \in 1..Len(fragment) : fragment[k].line = "Author"

(* The search service: a request none of whose collaborators fails is      *)
(* answered, and a Document hit without author comes back with null author *)
(* and department, its citations, and a fragment without author line.      *)
ServerExpandsAuthorless ==
    (/\ server_pc = "responded" /\ VectorsReady /\ app_state.graph
     /\ env.vector = "ok" /\ env.llm = "ok" /\ env.graph_fail_at = 0)
    => /\ response.status = 200
       /\ \A k \in 1..Len(response.context.documents) :
             \A d \in Authorless :
                 d.doc_id = response.context.documents[k].id
                 => LET meta == response.context.documents[k].metadata
                        frag == response.answer.context[Len(response.context.complaints) + k]
                    IN  /\ meta.author = NullName
                        /\ meta.department = NullName
                        /\ meta.citations = Citations(graph, d)
                        /\ ~HasAuthorLine(frag.context_text)

(* get_expanded_context of 202_neo4j_hybrid_rag: the fragment of a         *)
(* document without author has no author line.                             *)
ScriptExpandsAuthorless ==
    \A d \in Authorless : expanded.title = d.title => ~HasAuthorLine(expanded.fragment)

(* C14: expanding a Document that is in the store and has no AUTHORED      *)
(* Person raises nothing and gives a null author and department, the       *)
(* document's citations, and a fragment without author line, in the search *)
(* service and in the hybrid chat script alike.                            *)
C14_AuthorlessExpansion == ServerExpandsAuthorless /\ ScriptExpandsAuthorless

(* C15: a request with use_hyde unset for which both indexes return no hit *)
(* is answered with an empty context, no source and no highlighted node,   *)
(* and makes no graph query.                                               *)
C15_NoHitsEmptyBundle ==
    (/\ server_pc = "responded" /\ VectorsReady /\ ~request.use_hyde
     /\ env.vector = "ok" /\ env.llm = "ok"
     /\ ComplaintHits = <<>> /\ DocumentHits = <<>>)
    => /\ response.status = 200
       /\ response.answer.context = <<>>
       /\ response.sources = <<>>
       /\ response.context.complaints = <<>> /\ response.context.documents = <<>>
       /\ response.highlighted_nodes = {}
       /\ graph_queries = 0

(* Such a request has been answered by a server connected to the store,    *)
(* although its environment has the first graph query fail.                *)
C15_Witness ==
    /\ server_pc = "responded" /\ VectorsReady /\ app_state.graph
    /\ ~request.use_hyde /\ request.query # NoText
    /\ env.vector = "ok" /\ env.llm = "ok" /\ env.graph_fail_at = 1
    /\ ComplaintHits = <<>> /\ DocumentHits = <<>>
    /\ response.status = 200

(***************************************************************************)
(* SpecStore: the store under any runs of 301_build_real_graph and         *)
(* 302_add_complaints_node, read by get_complaint_context.                 *)
(***************************************************************************)
MaxStoreRows == 2
MaxStoreDocs == 3
MaxComplaintRows == 2
MaxStoreRuns == 3

StoreAuthors == <<"kim", "lee", "park">>
ComplaintIndexes == {1, 2}

StoreDocRow(i, num, name, author) ==
    [Index |-> i,
     row |-> [Doc_Number |-> num, Document_Name |-> name, Author |-> author,
              Department |-> ""]]

(* The rows a documents CSV is made of: with a number and a name, with a   *)
(* name only, with neither; two rows may repeat an Index and two Indexes a *)
(* number.                                                                 *)
FreeDocRows ==
    {StoreDocRow(i, ID_FRAG, <<"T", ToString(i)>>, "kim") : i \in DocIndexes}
    \cup {StoreDocRow(1, <<>>, <<"T", "1">>, "kim"), StoreDocRow(2, <<>>, <<>>, "kim")}

DocRowSeqs(n) == UNION {[1..k -> FreeDocRows] : k \in 0..n}

(* Document d in one row per author, m authors. *)
DocByAuthors(d, m) ==
    [k \in 1..m |-> StoreDocRow(d, <<>>, <<"T", ToString(d)>>, StoreAuthors[k])]

(* n documents: the first by every author, each next one by one fewer. *)
RECURSIVE CoAuthored(_)
CoAuthored(n) ==
    IF n = 0 THEN <<>>
    ELSE CoAuthored(n - 1) \o DocByAuthors(n, Max(1, Len(StoreAuthors) + 1 - n))

BuildInputs == DocRowSeqs(MaxStoreRows) \cup {CoAuthored(n) : n \in 1..MaxStoreDocs}

ComplaintRowSeqs == UNION {[1..k -> ComplaintIndexes] : k \in 0..MaxComplaintRows}

(* Similarities in hundredths, at the threshold and above it.  A run finds *)
(* the documents at these similarities in one of their rotations, the same *)
(* for both complaints.                                                    *)
ScoreValues == <<LINK_THRESHOLD, 60, 80, 100>>

StoreScores ==
    {[c \in ComplaintIndexes |->
         [d \in 1..MaxStoreDocs |-> ScoreValues[((d + k) % Len(ScoreValues)) + 1]]] :
        k \in 1..Len(ScoreValues)}

InitStore ==
    /\ IdleExtract
    /\ IdlePipeline
    /\ IdleSearch
    /\ IdleService

(* build_graph() of src/graph_db/301_build_real_graph.py *)
StoreBuild ==
    /\ store_runs < MaxStoreRuns
    /\ \E rows \in BuildInputs :
          graph' = build_graph_of(graph, rows, WriteCsv(NoFile, "scripts", <<>>)).g
    /\ store_runs' = store_runs + 1
    /\ complaint_context' = NoComplaintContext
    /\ UNCHANGED <<corpusVars, doc_map, relations_csv, df_cites, build_status, doc_context>>
    /\ UNCHANGED <<extractVars, searchVars, overview, in_flight, workerVars>>

(* add_complaints() of src/graph_db/302_add_complaints_node.py; with       *)
(* index_ok false the linking query raises and the except clause ends the  *)
(* run with the Complaint nodes inserted.                                  *)
StoreAddComplaints ==
    /\ store_runs < MaxStoreRuns
    /\ \E rows \in ComplaintRowSeqs :
          \/ \E score \in StoreScores : graph' = add_complaints(graph, rows, score)
          \/ graph' = InsertComplaints(graph, rows)
    /\ store_runs' = store_runs + 1
    /\ complaint_context' = NoComplaintContext
    /\ UNCHANGED <<corpusVars, doc_map, relations_csv, df_cites, build_status, doc_context>>
    /\ UNCHANGED <<extractVars, searchVars, overview, in_flight, workerVars>>

(* get_complaint_context(node_id) of src/graph_db/api_server_real.py, the  *)
(* store connected.                                                        *)
GetComplaintContext ==
    /\ \E idx \in ComplaintIndexes :
          \E r \in ComplaintResults(graph, idx) :
              complaint_context' = [asked |-> idx, result |-> ComplaintContextOf(r)]
    /\ UNCHANGED <<pipelineVars, extractVars, searchVars, overview, store_runs, in_flight,
                   workerVars>>

NextStore == StoreBuild \/ StoreAddComplaints \/ GetComplaintContext

SpecStore == InitStore /\ [][NextStore]_vars

(***************************************************************************)
(* Properties of the store and of the complaint expansion.                 *)
(***************************************************************************)
RelatedList == complaint_context.result.related_documents

(* The RELATED_TO relationships of the complaint last asked about. *)
AskedRelated ==
    {e \in EdgeSet(graph, "RELATED_TO") :
        \E c \in NodesOf(graph, "Complaint") :
            c.index = complaint_context.asked /\ e.src = c.id}

Listed(e) == \E k \in DOMAIN RelatedList : RelatedList[k].neo4j_id = e.dst

(* C16: the related documents get_complaint_context returns are at most    *)
(* RELATED_LIMIT, stand in non-increasing score order, and no related      *)
(* document left out of the list has a higher score than one in it.        *)
C16_RelatedRanked ==
    complaint_context.asked # 0 =>
        /\ Len(RelatedList) <= RELATED_LIMIT
        /\ \A a, b \in DOMAIN RelatedList :
              a < b => RelatedList[a].similarity >= RelatedList[b].similarity
        /\ \A e \in AskedRelated :
              ~Listed(e) => \A k \in DOMAIN RelatedList : RelatedList[k].similarity >= e.score

(* The same with the related documents that have no title set aside: they  *)
(* are the ones the list loses.                                            *)
TitledRelatedRanked ==
    complaint_context.asked # 0 =>
        /\ Len(RelatedList) <= RELATED_LIMIT
        /\ \A a, b \in DOMAIN RelatedList :
              a < b => RelatedList[a].similarity >= RelatedList[b].similarity
        /\ \A e \in AskedRelated :
              (~Listed(e) /\ NodeById(graph, e.dst).title # NullText)
              => \A k \in DOMAIN RelatedList : RelatedList[k].similarity >= e.score

(* A list cut by the limit: a complaint with more rows than RELATED_LIMIT. *)
RelatedListCut ==
    /\ complaint_context.asked # 0
    /\ Len(RelatedList) = RELATED_LIMIT
    /\ \E e \in AskedRelated : ~Listed(e)

(* C19: every RELATED_TO relationship goes from a Complaint to a Document  *)
(* and carries a score above the threshold 0.5 and at most 1 (scores are   *)
(* in hundredths), whatever runs of add_complaints came before.            *)
C19_RelatedToAboveThreshold ==
    \A e \in EdgeSet(graph, "RELATED_TO") :
        /\ NodeById(graph, e.src).label = "Complaint"
        /\ NodeById(graph, e.dst).label = "Document"
        /\ e.score > LINK_THRESHOLD
        /\ e.score <= 100

(* After a re-run: one complaint holds relationships of the same score to  *)
(* two documents, which no single run gives; one of them is left from a    *)
(* run before the similarity fell to the threshold.                        *)
C19_Witness ==
    /\ store_runs >= 3
    /\ \E e1, e2 \in EdgeSet(graph, "RELATED_TO") :
          e1.src = e2.src /\ e1.dst # e2.dst /\ e1.score = e2.score

(* C20: no two Document nodes share an index, no two Complaint nodes share *)
(* an index, and no two Document nodes share a doc_id, whatever runs of    *)
(* build_graph and add_complaints came before.                             *)
C20_UniqueKeys ==
    /\ \A a, b \in NodesOf(graph, "Document") : a.index = b.index => a = b
    /\ \A a, b \in NodesOf(graph, "Complaint") : a.index = b.index => a = b
    /\ \A a, b \in NodesOf(graph, "Document") : a.doc_id = b.doc_id => a = b

(* After runs over rows repeating an Index: a document of several authors  *)
(* (one row each) under its placeholder number, beside another document    *)
(* and two complaints.                                                     *)
C20_Witness ==
    /\ store_runs >= 2
    /\ \E d \in NodesOf(graph, "Document") :
          /\ d.doc_id = UnknownDocId(d.index)
          /\ Cardinality({e \in EdgeSet(graph, "AUTHORED") : e.dst = d.id}) >= 2
    /\ Cardinality(NodesOf(graph, "Document")) >= 2
    /\ Cardinality(NodesOf(graph, "Complaint")) = 2

(* C17: serving search and graph-overview requests leaves the store as it  *)
(* was: every step of the started service keeps nodes, relationships and   *)
(* properties.                                                             *)
C17_StoreUnchanged == [][server_pc # "starting" => graph' = graph]_vars

(* A graph overview of the whole store has been served. *)
C17_Witness ==
    /\ server_pc = "overviewed"
    /\ graph = FullStore
    /\ overview.status = 200
    /\ Cardinality(overview.nodes) = Cardinality(FullStore.nodes)
    /\ overview.edges # {}

(***************************************************************************)
(* SpecConcurrent: search handlers of src/graph_db/api_server_real.py      *)
(* running together over one store.  search never awaits, so the event     *)
(* loop runs one handler to its end before the next; the handlers here     *)
(* yield after the sanity check and after the HyDE block as well, which    *)
(* covers every schedule a server running them in threads could produce.   *)
(***************************************************************************)
(* What the collaborators answer to one request, the vector searches, the  *)
(* store and the answer chain working.                                     *)
ConcurrentEnvs(G) ==
    {e \in Envs(G) : e.vector = "ok" /\ e.llm = "ok" /\ e.ab = "ok" /\ e.graph_fail_at = 0}

(* search_query and hypothetical_doc of a handler: its locals. *)
HandlerHydeShared(slots, h) ==
    IF \E o \in DOMAIN slots : o # h /\ slots[o].pc = "retrieve"
    THEN slots[CHOOSE o \in DOMAIN slots : o # h /\ slots[o].pc = "retrieve"].hyde
    ELSE slots[h].hyde

HandlerHyde(slots, h) == slots[h].hyde

InitConcurrent ==
    /\ IdleExtract
    /\ IdleTools
    /\ IdleService
    /\ graph \in SearchStores
    /\ app_state = [graph |-> FALSE, doc_vector |-> FALSE, complaint_vector |-> FALSE]
    /\ server_pc = "starting"
    /\ NoRequestYet
    /\ expanded = NoExpanded

(* search(): the request arrives and the sanity check is made. *)
Receive ==
    /\ server_pc = "idle"
    /\ \E h \in Handlers, req \in Requests, e \in ConcurrentEnvs(graph) :
          /\ in_flight[h].pc = "none"
          /\ in_flight' =
                [in_flight EXCEPT ![h] =
                    IF ~app_state.complaint_vector \/ ~app_state.doc_vector
                    THEN [pc |-> "done", request |-> req, env |-> e, hyde |-> NoHyde,
                          response |-> ServiceUnavailable]
                    ELSE [pc |-> "hyde", request |-> req, env |-> e, hyde |-> NoHyde,
                          response |-> NoResponse]]
    /\ UNCHANGED <<extractVars, pipelineVars, searchVars>>
    /\ UNCHANGED <<complaint_context, overview, store_runs, workerVars>>

(* search(): the HyDE block. *)
HydeBlock ==
    /\ \E h \in Handlers :
          /\ in_flight[h].pc = "hyde"
          /\ in_flight' =
                [in_flight EXCEPT ![h].hyde = HydeStep(in_flight[h].request, in_flight[h].env),
                                  ![h].pc = "retrieve"]
    /\ UNCHANGED <<extractVars, pipelineVars, searchVars>>
    /\ UNCHANGED <<complaint_context, overview, store_runs, workerVars>>

(* search(): from the vector searches to the response. *)
Retrieve ==
    /\ \E h \in Handlers :
          /\ in_flight[h].pc = "retrieve"
          /\ \E out \in SearchAfterHyde(app_state, graph, in_flight[h].request,
                                        in_flight[h].env, HandlerHyde(in_flight, h)) :
                /\ in_flight' = [in_flight EXCEPT ![h].response = out.response,
                                                  ![h].pc = "done"]
                /\ graph' = StoreAfterQueries(graph, ExpansionStatements(out.graph_queries))
    /\ UNCHANGED <<extractVars, toolVars, searchVars>>
    /\ UNCHANGED <<complaint_context, overview, store_runs, workerVars>>

(* The response has gone to the client and the handler's locals with it. *)
Deliver ==
    /\ \E h \in Handlers :
          /\ in_flight[h].pc = "done"
          /\ in_flight' = [in_flight EXCEPT ![h] = NoHandler]
    /\ UNCHANGED <<extractVars, pipelineVars, searchVars>>
    /\ UNCHANGED <<complaint_context, overview, store_runs, workerVars>>

NextConcurrent == Lifespan \/ Receive \/ HydeBlock \/ Retrieve \/ Deliver

SpecConcurrent == InitConcurrent /\ [][NextConcurrent]_vars

(* What the request of handler h gets when it is served alone. *)
AloneResponses(h) ==
    {out.response : out \in search(app_state, graph, in_flight[h].request, in_flight[h].env)}

(* C18: the handles of state are assigned during startup only, and the     *)
(* response of every handler, however the handlers interleave, is one the  *)
(* same request gets alone against the same store and the same answers of  *)
(* the collaborators.                                                      *)
C18_HandlersIndependent ==
    /\ [](\A h \in Handlers :
            in_flight[h].pc = "done" => in_flight[h].response \in AloneResponses(h))
    /\ [][server_pc # "starting" => app_state' = app_state]_vars

(* Two handlers have answered together two requests whose search texts and *)
(* hits differ.                                                            *)
C18_Witness ==
    /\ in_flight[1].pc = "done" /\ in_flight[2].pc = "done"
    /\ in_flight[1].response.status = 200 /\ in_flight[2].response.status = 200
    /\ in_flight[1].request.use_hyde /\ ~in_flight[2].request.use_hyde
    /\ in_flight[1].response.sources # in_flight[2].response.sources
    /\ in_flight[1].env # in_flight[2].env

(***************************************************************************)
(* Further properties of the resolvers.                                    *)
(***************************************************************************)
(* C25: no row of the findall-based resolver cites, from a document, the   *)
(* number extract_own_doc_number returned for that document.               *)
C25_OwnNumberNeverCited ==
    relations_csv.header = "root" =>
        \A r \in RowSet(relations_csv.rows) :
            r.num # extract_own_doc_number(Plain(parsed_files[r.source]))

(* The occurrences of X in c that no Hangul character precedes. *)
FreeOccurrences(c, X) == {s \in Occurrences(c, X) : CharAt(c, s - 1) \notin Hangul}

(* C26: a row of the lookahead-based resolver citing X from document d     *)
(* exists only when d holds an occurrence of X that no Hangul character    *)
(* precedes.                                                               *)
C26_NoTailMatch ==
    relations_csv.header = "scripts" =>
        \A r \in RowSet(relations_csv.rows) :
            FreeOccurrences(parsed_files[r.source], r.num) # {}

(***************************************************************************)
(* Further properties of extract_own_doc_number.                           *)
(***************************************************************************)
(* The position, in the body of t, of the last character of the match      *)
(* extract_own_doc_number(t) returns; 0 when it returns no match.          *)
OwnMatchEnd(t) ==
    LET lw == WindowBody(t, OWN_LABEL_WINDOW)
        fw == WindowBody(t, OWN_FALLBACK_WINDOW)
        c == LabelledSearchFrom(lw, 1)
        i == DocNumSearchFrom(fw, 1)
    IN  IF c # 0 THEN DocNumEnd(lw, c)
        ELSE IF i # 0 THEN DocNumEnd(fw, i)
        ELSE 0

(* C27: the digit run of the number extract_own_doc_number returns is not  *)
(* followed by a further digit in the full content.                        *)
C27_CompleteToken ==
    (xpc = "returned" /\ own_doc_num # NoMatch) =>
        CharAt(content.body, OwnMatchEnd(content) + 1) \notin Digit

(***************************************************************************)
(* Further properties of the response of POST /api/search.                 *)
(***************************************************************************)
(* The node ids the context of a response carries: those of the hit        *)
(* complaints, of their related documents and of those documents' authors, *)
(* of the hit documents, of their authors and departments, and of the      *)
(* documents they cite.                                                    *)
ContextNodeIds(context) ==
    UNION {{context.complaints[k].neo4j_id}
           \cup {context.complaints[k].related_documents[j].neo4j_id :
                    j \in DOMAIN context.complaints[k].related_documents}
           \cup {context.complaints[k].related_documents[j].author_node_id :
                    j \in DOMAIN context.complaints[k].related_documents} :
               k \in DOMAIN context.complaints}
    \cup UNION {{context.documents[k].neo4j_id,
                 context.documents[k].metadata.author_node_id,
                 context.documents[k].metadata.department_node_id}
                \cup {c.neo4j_id : c \in context.documents[k].metadata.citations} :
                    k \in DOMAIN context.documents}

(* C28: highlighted_nodes holds the id of every node of the context whose  *)
(* id is not null, the id 0 included, and no other id.                     *)
C28_EveryNodeHighlighted ==
    (server_pc = "responded" /\ response.status = 200) =>
        response.highlighted_nodes = {i \in ContextNodeIds(response.context) : i # NullId}

(* The vector searches of the request were made with the hypothetical      *)
(* document generated for its question.                                    *)
SearchedWithHypothetical ==
    /\ Len(vector_queries) >= TOP_K
    /\ \A k \in 1..TOP_K :
          vector_queries[k].query = generate_hypothetical_document(request.query)

(* C29: search_method is "HyDE" exactly when the vector searches used the  *)
(* generated hypothetical document, and hypothetical_document is not null  *)
(* exactly then.                                                           *)
C29_MethodNamesTheSearch ==
    (server_pc = "responded" /\ response.status = 200) =>
        /\ (response.search_method = "HyDE") <=> SearchedWithHypothetical
        /\ (response.hypothetical_document # NoText) <=> SearchedWithHypothetical

(* lifespan left the store or one of the vector indexes unset. *)
StartupFailed ==
    server_pc # "starting"
    /\ (~app_state.graph \/ ~app_state.doc_vector \/ ~app_state.complaint_vector)

(* C24: after a startup that left the store or a vector index unset,       *)
(* /health never replies an unqualified ok, and /api/search is rejected    *)
(* with 503 before any collaborator is called.                             *)
C24_NotReadyReported ==
    StartupFailed =>
        /\ server_pc = "health" => health_reply # [status |-> "ok"]
        /\ server_pc = "responded" =>
              /\ response.status = 503
              /\ vector_queries = <<>>
              /\ graph_queries = 0

(* The half of C24 about /api/search: rejected with 503 before any         *)
(* collaborator is called whenever a vector index is unset.                *)
SearchRejectedWhenNotReady ==
    (server_pc = "responded" /\ (~app_state.doc_vector \/ ~app_state.complaint_vector)) =>
        /\ response.status = 503
        /\ vector_queries = <<>>
        /\ graph_queries = 0

(***************************************************************************)
(* SpecResolve: the two resolvers over a corpus of three documents, two of *)
(* which may declare the same number while the third cites it.             *)
(***************************************************************************)
MaxResolveFrags == 3

ResolveIndexes == {1, 2, 3}

SECOND_ID == <<"M", "-", "2">>

(* The fragments of a file: a number, a newline, and a header with a       *)
(* second number followed by a line citing the first.                      *)
ResolveFrags == {ID_FRAG, <<"\n">>, SECOND_ID \o <<"\n">> \o ID_FRAG}

(* The contents of the three parsed files: at most MaxResolveFrags         *)
(* fragments in all, dealt to the three files in order.                    *)
ResolveCorpora ==
    {[i \in ResolveIndexes |->
         Flatten(SubSeq(x[1], IF i = 1 THEN 1 ELSE x[i] + 1,
                              IF i = 3 THEN Len(x[1]) ELSE x[i + 1]))] :
        x \in {y \in FragSeqs(ResolveFrags, MaxResolveFrags)
                       \X (0..MaxResolveFrags) \X (0..MaxResolveFrags) :
                  y[2] <= y[3] /\ y[3] <= Len(y[1])}}

(* The Doc_Number cells of the three rows: the first two rows have the     *)
(* same number.                                                            *)
ResolveDocNumbers == <<ID_FRAG, ID_FRAG, SECOND_ID>>

InitResolve ==
    /\ IdleExtract
    /\ IdleSearch
    /\ IdleService
    /\ parsed_files \in ResolveCorpora
    /\ docs_csv = [i \in ResolveIndexes |-> DocsCsvRow(i, ResolveDocNumbers[i])]
    /\ glob_order \in SetOrders(ResolveIndexes)
    /\ doc_map = <<>>
    /\ relations_csv = NoFile
    /\ graph = EmptyGraph
    /\ df_cites = NoFile
    /\ build_status = "none"
    /\ doc_context = NoContext

NextResolve == RunRootResolver \/ RunScriptsResolver

SpecResolve == InitResolve /\ [][NextResolve]_vars

(* The documents that declare the number X to the resolver that ran last,  *)
(* and the order in which that resolver indexed the documents.             *)
Declarers(X) ==
    IF relations_csv.header = "root"
    THEN {i \in DOMAIN parsed_files :
             LET n == extract_own_doc_number(Plain(parsed_files[i]))
             IN  n # NoMatch /\ Strip(n) = X}
    ELSE {i \in DOMAIN docs_csv : clean_doc_num(docs_csv[i].Doc_Number) = X}

IndexingOrder ==
    IF relations_csv.header = "root" THEN glob_order ELSE RowOrder(docs_csv)

(* The document of S that comes last in order. *)
LastIndexed(order, S) ==
    order[CHOOSE k \in DOMAIN order :
              order[k] \in S /\ \A j \in DOMAIN order : order[j] \in S => j <= k]

(* The documents in which the resolver that ran last finds the number X. *)
Citing(X) ==
    IF relations_csv.header = "root"
    THEN {i \in DOMAIN parsed_files : \E t \in TokenSet(parsed_files[i]) : Strip(t) = X}
    ELSE {i \in DOMAIN parsed_files : LookaheadSearch(parsed_files[i], X) # 0}

(* C21: a number declared by several documents resolves to the one indexed *)
(* last; every document other than that one in which the number is found   *)
(* gets a row, and every row citing the number targets that document.      *)
C21_LastIndexedWins ==
    relations_csv.header # "absent" =>
        \A X \in {ID_FRAG, SECOND_ID} :
            Declarers(X) # {} =>
                LET last == LastIndexed(IndexingOrder, Declarers(X))
                IN  /\ X \in DictKeys(doc_map)
                    /\ DictValue(doc_map, X) = last
                    /\ \A r \in RowSet(relations_csv.rows) : r.num = X => r.target = last
                    /\ \A i \in Citing(X) \ {last} :
                          \E r \in RowSet(relations_csv.rows) :
                              r.source = i /\ r.num = X /\ r.target = last

(* Two documents declare the same number, the one indexed first is not the *)
(* one with the smaller index, and a third document cites the number.      *)
C21_Witness ==
    /\ relations_csv.header # "absent"
    /\ Cardinality(Declarers(ID_FRAG)) = 2
    /\ \E i \in DOMAIN parsed_files \ Declarers(ID_FRAG) :
          \E r \in RowSet(relations_csv.rows) :
              /\ r.source = i
              /\ r.num = ID_FRAG
              /\ r.target = LastIndexed(IndexingOrder, Declarers(ID_FRAG))
              /\ \E j \in Declarers(ID_FRAG) : j > r.target

(* The span of the match a row was written for. *)
MatchStart(r) ==
    IF relations_csv.header = "root" THEN LiteralSearch(parsed_files[r.source], r.num)
    ELSE LookaheadSearch(parsed_files[r.source], r.num)

(* C22: the snippet of a row is "..." + the window of SNIPPET_MARGIN       *)
(* characters around the match with newlines replaced by spaces + "...",   *)
(* nothing else added or removed.                                          *)
C22_SnippetIsWindow ==
    relations_csv.header # "absent" =>
        \A r \in RowSet(relations_csv.rows) :
            LET c == parsed_files[r.source]
                s == MatchStart(r)
                e == s + Len(r.num) - 1
            IN  r.text = ELLIPSIS
                         \o ReplaceNewlines(Slice(c, Max(0, (s - 1) - SNIPPET_MARGIN),
                                                  Min(Len(c), e + SNIPPET_MARGIN)))
                         \o ELLIPSIS

(***************************************************************************)
(* SpecBundle: the two loops of search() that assemble combined_context,   *)
(* over hits whose contents are around SNIPPET_CHARS characters long.      *)
(* similarity_search(k=2) returns at most TOP_K hits of each kind.         *)
(***************************************************************************)
MaxOverrun == 1

Filler(n) == [k \in 1..n |-> "x"]

ContentLengths ==
    {0} \cup ((SNIPPET_CHARS - MaxOverrun)..(SNIPPET_CHARS + MaxOverrun))
TitleLengths == {1, 2}
ContextLengths == {0, 1}

BundleComplaintHits ==
    {[kind |-> "Complaint", index |-> 1, page_content |-> Filler(n)] :
        n \in ContentLengths}

BundleDocumentHits ==
    {[kind |-> "Document", doc_id |-> ID_FRAG, title |-> Filler(t),
      page_content |-> Filler(n)] : n \in ContentLengths, t \in TitleLengths}

(* What get_complaint_context and get_document_context return for a hit    *)
(* without neighbours in the store, but for the text of the expansion.     *)
BundleComplaintContexts ==
    {[EmptyComplaintContext EXCEPT !.context_text = Filler(n)] : n \in ContextLengths}

BundleDocumentContexts ==
    {[EmptyDocumentContext EXCEPT !.context_text = Filler(n)] : n \in ContextLengths}

(* f"[Complaint]: {complaint_snippet}\n{context_text}\n---\n" and          *)
(* f"[Document]: {doc_title}\nContent: {doc_snippet}\n{context_text}\n---\n" *)
COMPLAINT_TAG == <<"[", "C", "o", "m", "p", "l", "a", "i", "n", "t", "]", ":", " ">>
DOCUMENT_TAG == <<"[", "D", "o", "c", "u", "m", "e", "n", "t", "]", ":", " ">>
CONTENT_TAG == <<"\n", "C", "o", "n", "t", "e", "n", "t", ":", " ">>
FRAGMENT_END == <<"\n", "-", "-", "-", "\n">>

FragmentText(frag) ==
    IF frag.kind = "Complaint"
    THEN COMPLAINT_TAG \o frag.snippet \o <<"\n">> \o frag.context_text \o FRAGMENT_END
    ELSE DOCUMENT_TAG \o frag.title \o CONTENT_TAG \o frag.snippet \o <<"\n">>
         \o frag.context_text \o FRAGMENT_END

(* combined_context as the string the handler builds. *)
RECURSIVE ContextText(_)
ContextText(combined_context) ==
    IF combined_context = <<>> THEN <<>>
    ELSE FragmentText(Head(combined_context)) \o ContextText(Tail(combined_context))

bundleRest == <<extractVars, pipelineVars, searchVars, complaint_context, overview,
                store_runs, in_flight, health_reply, job>>

InitBundle ==
    /\ IdleExtract
    /\ IdlePipeline
    /\ IdleSearch
    /\ complaint_context = NoComplaintContext
    /\ overview = NoOverview
    /\ store_runs = 0
    /\ in_flight = [h \in Handlers |-> NoHandler]
    /\ health_reply = NoHealth
    /\ job = NoJob
    /\ bundle = [pc |-> "complaints", acc |-> NewAcc]

(* One turn of `for doc in c_docs`. *)
TakeComplaint ==
    /\ bundle.pc = "complaints"
    /\ Len(bundle.acc.complaints) < TOP_K
    /\ \E doc \in BundleComplaintHits, context_data \in BundleComplaintContexts :
          bundle' = [bundle EXCEPT !.acc = AddComplaint(@, doc, context_data)]
    /\ UNCHANGED bundleRest

(* c_docs is exhausted. *)
EndComplaints ==
    /\ bundle.pc = "complaints"
    /\ bundle' = [bundle EXCEPT !.pc = "documents"]
    /\ UNCHANGED bundleRest

(* One turn of `for doc in d_docs`. *)
TakeDocument ==
    /\ bundle.pc = "documents"
    /\ Len(bundle.acc.documents) < TOP_K
    /\ \E doc \in BundleDocumentHits, context_data \in BundleDocumentContexts :
          bundle' = [bundle EXCEPT !.acc = AddDocument(@, doc, context_data)]
    /\ UNCHANGED bundleRest

(* d_docs is exhausted: combined_context goes to the answer chain. *)
EndDocuments ==
    /\ bundle.pc = "documents"
    /\ bundle' = [bundle EXCEPT !.pc = "assembled"]
    /\ UNCHANGED bundleRest

NextBundle == TakeComplaint \/ EndComplaints \/ TakeDocument \/ EndDocuments

SpecBundle == InitBundle /\ [][NextBundle]_vars

(* C23: the context text of a request is at most SNIPPET_CHARS characters  *)
(* for each of the TOP_K + TOP_K hits.                                     *)
C23_BundleBounded ==
    bundle.pc = "assembled" =>
        Len(ContextText(bundle.acc.combined_context)) <= SNIPPET_CHARS * (TOP_K + TOP_K)

(* The text of every fragment of the context is at most SNIPPET_CHARS      *)
(* characters.                                                             *)
FragmentBounded ==
    bundle.pc # "none" =>
        \A k \in DOMAIN bundle.acc.combined_context :
            Len(FragmentText(bundle.acc.combined_context[k])) <= SNIPPET_CHARS

(***************************************************************************)
(* SpecParse: process_file of src/storm_parse_documents.py for one file.   *)
(* job holds its locals (job_id, retries), where it stands (pc), what it   *)
(* returned (result) and what it did to the outside: the upload_file and   *)
(* check_job_status calls made, the writes of the parsed output, the       *)
(* messages given to log_error.                                            *)
(***************************************************************************)
MAX_RETRIES == 24

NoJobId == ""
NoResult == [outcome |-> "none"]

(* file_id: the digits before "_original", "unknown" without them. *)
FileIds == {"1", "unknown"}

(* What check_job_status returns: nothing (the call failed or the reply is *)
(* empty), or a JSON object whose "state" is one process_file knows,       *)
(* another one, or missing; the pages of a COMPLETED reply are a list of   *)
(* objects with text contents.                                             *)
IntermediateStates == {"REQUESTED", "PROCESSING", "PENDING", "ACCEPTED"}
FailedStates == {"FAILED", "ERRORED"}
JobReplies ==
    {"no reply", "COMPLETED", "OTHER", "no state"} \cup FailedStates \cup IntermediateStates

(* The reply makes process_file write the parsed output. *)
SavesResultOnAnyEnd(state) == state \in {"COMPLETED"} \cup FailedStates

SavesResult(state) == state = "COMPLETED"

parseRest == <<extractVars, pipelineVars, searchVars, complaint_context, overview,
               store_runs, in_flight, health_reply, bundle>>

InitParse ==
    /\ IdleExtract
    /\ IdlePipeline
    /\ IdleSearch
    /\ complaint_context = NoComplaintContext
    /\ overview = NoOverview
    /\ store_runs = 0
    /\ in_flight = [h \in Handlers |-> NoHandler]
    /\ health_reply = NoHealth
    /\ bundle = NoBundle
    /\ \E id \in FileIds, exists \in BOOLEAN :
          job = [pc |-> "start", file_id |-> id, output_exists |-> exists,
                 output_existed |-> exists, job_id |-> NoJobId, retries |-> 0,
                 uploads |-> 0, polls |-> 0, writes |-> 0, log |-> <<>>,
                 result |-> NoResult]

(* if os.path.exists(output_path): return None *)
SkipOrStart ==
    /\ job.pc = "start"
    /\ job' = IF job.output_exists
              THEN [job EXCEPT !.pc = "returned", !.result = [outcome |-> "None"]]
              ELSE [job EXCEPT !.pc = "upload"]
    /\ UNCHANGED parseRest

(* job_id = upload_file(file_path), and the return when there is none. *)
Upload ==
    /\ job.pc = "upload"
    /\ \E id \in {NoJobId, "J"} :
          job' = IF id = NoJobId
                 THEN [job EXCEPT !.uploads = @ + 1,
                                  !.log = Append(@, "Failed to get jobId (Upload failed)"),
                                  !.pc = "returned",
                                  !.result = [outcome |-> "Upload failed"]]
                 ELSE [job EXCEPT !.uploads = @ + 1, !.job_id = id, !.pc = "poll"]
    /\ UNCHANGED parseRest

(* One turn of `while retries < max_retries`. *)
Poll ==
    /\ job.pc = "poll"
    /\ job.retries < MAX_RETRIES
    /\ \E reply \in JobReplies :
          job' = IF reply = "no reply"
                 THEN [job EXCEPT !.polls = @ + 1, !.retries = @ + 1]
                 ELSE IF reply = "COMPLETED"
                 THEN [job EXCEPT !.polls = @ + 1,
                                  !.writes = IF SavesResult(reply) THEN @ + 1 ELSE @,
                                  !.output_exists = SavesResult(reply),
                                  !.pc = "returned",
                                  !.result = [outcome |-> "Completed"]]
                 ELSE IF reply \in FailedStates
                 THEN [job EXCEPT !.polls = @ + 1,
                                  !.writes = IF SavesResult(reply) THEN @ + 1 ELSE @,
                                  !.output_exists = SavesResult(reply),
                                  !.log = Append(@, "Job state " \o reply),
                                  !.pc = "returned",
                                  !.result = [outcome |-> "Failed"]]
                 ELSE IF reply \in IntermediateStates
                 THEN [job EXCEPT !.polls = @ + 1, !.retries = @ + 1]
                 ELSE [job EXCEPT !.polls = @ + 1, !.retries = @ + 1,
                                  !.log = Append(@, "Unknown state")]
    /\ UNCHANGED parseRest

(* The loop ends with retries = max_retries. *)
TimeOut ==
    /\ job.pc = "poll"
    /\ job.retries >= MAX_RETRIES
    /\ job' = [job EXCEPT !.log = Append(@, "Timed out"), !.pc = "returned",
                          !.result = [outcome |-> "Timed out"]]
    /\ UNCHANGED parseRest

NextParse == SkipOrStart \/ Upload \/ Poll \/ TimeOut

(* process_file is sequential code: it keeps taking its next step. *)
SpecParse == InitParse /\ [][NextParse]_vars /\ WF_vars(NextParse)

(* What C30 says of every state of process_file. *)
ParseSafe ==
    /\ job.polls <= MAX_RETRIES
    /\ job.writes > 0 => job.pc = "returned"
    /\ job.pc = "returned" =>
          /\ job.job_id # NoJobId => job.result.outcome \in {"Completed", "Failed", "Timed out"}
          /\ job.writes = 1 <=> job.result.outcome = "Completed"
          /\ job.writes \in {0, 1}
          /\ job.output_existed =>
                job.result.outcome = "None" /\ job.uploads = 0 /\ job.writes = 0

=============================================================================
